---- MODULE Spec2Model ----
(***************************************************************************)
(* A model of the DataQuery AI assistant: the App component's session      *)
(* state (src/src/App.tsx), its handlers handleFileUpload, updateChartData *)
(* and handleQuerySubmit, and the two analysis modules that define         *)
(* analyzeDataWithAI and processDataForChart (src/src/utils/openai.ts and  *)
(* the module appended to src/src/App.tsx from line 1150 on).              *)
(***************************************************************************)
EXTENDS Integers, Sequences, FiniteSets, TLC

(***************************************************************************)
(* JavaScript values.  Every value the handlers pass around is one record  *)
(* shape: t is the runtime type, s the payload of a string, n the payload  *)
(* of a number (integers only) or of a boolean (1/0), a the elements of an *)
(* array.                                                                  *)
(***************************************************************************)
JUndef == [t |-> "undefined", s |-> "", n |-> 0, a |-> << >>]
JNull == [t |-> "null", s |-> "", n |-> 0, a |-> << >>]
JStr(str) == [t |-> "string", s |-> str, n |-> 0, a |-> << >>]
JNum(k) == [t |-> "number", s |-> "", n |-> k, a |-> << >>]
JBool(b) == [t |-> "boolean", s |-> "", n |-> IF b THEN 1 ELSE 0, a |-> << >>]
JDate(ms) == [t |-> "date", s |-> "", n |-> ms, a |-> << >>]
JArr(elems) == [t |-> "array", s |-> "", n |-> 0, a |-> elems]
JTrue == JBool(TRUE)
JFalse == JBool(FALSE)

\* ToBoolean: undefined, null, false, 0 and '' are falsy; arrays are truthy.
Truthy(v) ==
  CASE v.t = "undefined" -> FALSE
    [] v.t = "null" -> FALSE
    [] v.t = "boolean" -> v.n = 1
    [] v.t = "number" -> v.n # 0
    [] v.t = "string" -> v.s # ""
    [] OTHER -> TRUE

\* a || b
JsOr(a, b) == IF Truthy(a) THEN a ELSE b

\* a ?? b
JsNullish(a, b) == IF a.t \in {"undefined", "null"} THEN b ELSE a

\* String(v) for the value shapes above (integers print in decimal).
JsString(v) ==
  CASE v.t = "undefined" -> "undefined"
    [] v.t = "null" -> "null"
    [] v.t = "boolean" -> (IF v.n = 1 THEN "true" ELSE "false")
    [] v.t = "number" -> ToString(v.n)
    [] v.t = "string" -> v.s
    [] OTHER -> ""

(***************************************************************************)
(* Strings.                                                                *)
(***************************************************************************)
\* str.substring(i - 1, j) with 1-based inclusive bounds, clamped to the string.
Slice(str, i, j) ==
  LET lo == IF i < 1 THEN 1 ELSE i
      hi == IF j > Len(str) THEN Len(str) ELSE j
  IN IF lo > hi THEN "" ELSE SubSeq(str, lo, hi)

Char(str, i) == Slice(str, i, i)

Rest(str, i) == Slice(str, i, Len(str))

UpperAlphabet == "ABCDEFGHIJKLMNOPQRSTUVWXYZ"

LowerAlphabet == "abcdefghijklmnopqrstuvwxyz"

\* The lower-case letter of each upper-case letter
LowerOfUpper ==
  [c \in {Char(UpperAlphabet, i) : i \in 1..Len(UpperAlphabet)} |->
     Char(LowerAlphabet, CHOOSE i \in 1..Len(UpperAlphabet) : Char(UpperAlphabet, i) = c)]

LowerChar(c) == IF c \in DOMAIN LowerOfUpper THEN LowerOfUpper[c] ELSE c

\* (The recursion halves the string, which keeps it shallow for a long text.)
RECURSIVE toLowerCase(_)
toLowerCase(str) ==
  IF Len(str) <= 1 THEN LowerChar(str)
  ELSE toLowerCase(Slice(str, 1, Len(str) \div 2))
         \o toLowerCase(Rest(str, Len(str) \div 2 + 1))

IsSpace(c) == c \in {" ", "\t", "\n", "\r"}

RECURSIVE trimStart(_)
trimStart(str) ==
  IF str # "" /\ IsSpace(Char(str, 1)) THEN trimStart(Rest(str, 2)) ELSE str

RECURSIVE trimEnd(_)
trimEnd(str) ==
  IF str # "" /\ IsSpace(Char(str, Len(str)))
  THEN trimEnd(Slice(str, 1, Len(str) - 1))
  ELSE str

trim(str) == trimEnd(trimStart(str))

SetMinOf(S) == CHOOSE x \in S : \A y \in S : x <= y

SetMaxOf(S) == CHOOSE x \in S : \A y \in S : x >= y

\* The least index >= from at which sub occurs in str, 0 when there is none.
IndexOf(str, sub, from) ==
  LET hits == {i \in from..(Len(str) - Len(sub) + 1) : Slice(str, i, i + Len(sub) - 1) = sub}
  IN IF hits = {} THEN 0 ELSE SetMinOf(hits)

LastIndexOf(str, sub) ==
  LET hits == {i \in 1..(Len(str) - Len(sub) + 1) : Slice(str, i, i + Len(sub) - 1) = sub}
  IN IF hits = {} THEN 0 ELSE SetMaxOf(hits)

includes(str, sub) == IndexOf(str, sub, 1) # 0

Digits == "0123456789"

IsDigit(c) == c # "" /\ includes(Digits, c)

DigitValue(c) == IndexOf(Digits, c, 1) - 1

RECURSIVE ParseDigits(_, _)
ParseDigits(str, acc) ==
  IF str = "" THEN acc ELSE ParseDigits(Rest(str, 2), 10 * acc + DigitValue(Char(str, 1)))

AllDigits(str) == str # "" /\ \A i \in 1..Len(str) : IsDigit(Char(str, i))

(***************************************************************************)
(* JSON.parse, for the texts the model's service replies are drawn from:   *)
(* an object whose members are strings (no \u escapes), integers, true,    *)
(* false, null or the empty array, or one such value alone.  Any other     *)
(* text is a SyntaxError.  A parse result is [ok, v, obj]: ok is FALSE     *)
(* for a SyntaxError; a parsed object has v.t = "object" and obj the       *)
(* members in source order as <<key, value>> pairs; another value has it   *)
(* in v.                                                                   *)
(***************************************************************************)
JObject == [t |-> "object", s |-> "", n |-> 0, a |-> << >>]

ParseFail == [ok |-> FALSE, v |-> JUndef, obj |-> << >>, next |-> 0]

RECURSIVE SkipWs(_, _)
SkipWs(str, i) ==
  IF i <= Len(str) /\ IsSpace(Char(str, i)) THEN SkipWs(str, i + 1) ELSE i

StartsWithAt(str, i, sub) == Slice(str, i, i + Len(sub) - 1) = sub

\* The number of backslashes that end just before position i.
RECURSIVE BackslashRun(_, _)
BackslashRun(str, i) ==
  IF i > 1 /\ Char(str, i - 1) = "\\" THEN 1 + BackslashRun(str, i - 1) ELSE 0

\* Position i holds a backslash that starts an escape.
EscapeAt(str, i) == Char(str, i) = "\\" /\ BackslashRun(str, i) % 2 = 0

\* The character an escaped c stands for.
Unescaped(c) == CASE c = "n" -> "\n" [] c = "t" -> "\t" [] OTHER -> c

\* What position i of a literal's body contributes to the decoded string.
DecodedChar(str, i) ==
  IF EscapeAt(str, i) THEN ""
  ELSE IF i > 1 /\ EscapeAt(str, i - 1) THEN Unescaped(Char(str, i))
  ELSE Char(str, i)

RECURSIVE DecodeRange(_, _, _)
DecodeRange(str, lo, hi) ==
  IF lo > hi THEN ""
  ELSE IF lo = hi THEN DecodedChar(str, lo)
  ELSE DecodeRange(str, lo, (lo + hi) \div 2) \o DecodeRange(str, (lo + hi) \div 2 + 1, hi)

\* The position of the quote that closes a literal whose body starts at i, 0 for none.
ClosingQuote(str, i) ==
  SetMinOf({Len(str) + 1}
             \cup {j \in i..Len(str) : Char(str, j) = "\"" /\ BackslashRun(str, j) % 2 = 0})
    % (Len(str) + 1)

\* A raw control character or an escape other than \" \\ \/ \n \t in str[i..close-1].
BadLiteral(str, i, close) ==
  \E j \in i..(close - 1) :
     \/ Char(str, j) \in {"\n", "\r", "\t"}
     \/ EscapeAt(str, j) /\ Char(str, j + 1) \notin {"\"", "\\", "/", "n", "t"}

\* The literal whose body is str[i..close-1].
LiteralUpTo(str, i, close) ==
  IF close = 0 \/ BadLiteral(str, i, close) THEN ParseFail
  ELSE [ok |-> TRUE, v |-> JStr(DecodeRange(str, i, close - 1)), obj |-> << >>,
        next |-> close + 1]

\* The characters of a string literal from i on, up to its closing quote.
ScanJsonString(str, i) == LiteralUpTo(str, i, ClosingQuote(str, i))

\* A string literal starting at the quote at i.
ParseJsonString(str, i) ==
  IF Char(str, i) # "\"" THEN ParseFail ELSE ScanJsonString(str, i + 1)

RECURSIVE DigitsEnd(_, _)
DigitsEnd(str, i) ==
  IF i <= Len(str) /\ IsDigit(Char(str, i)) THEN DigitsEnd(str, i + 1) ELSE i

\* The digits str[from..to-1] as a number, with its sign.
DigitsUpTo(str, from, to, sign) ==
  IF to = from THEN ParseFail
  ELSE [ok |-> TRUE, v |-> JNum(sign * ParseDigits(Slice(str, from, to - 1), 0)),
        obj |-> << >>, next |-> to]

ParseJsonNumber(str, i) ==
  IF Char(str, i) = "-"
  THEN DigitsUpTo(str, i + 1, DigitsEnd(str, i + 1), 0 - 1)
  ELSE DigitsUpTo(str, i, DigitsEnd(str, i), 1)

\* The rest of an array after its bracket: only the empty array is in the fragment.
EmptyArrayEnd(str, j) ==
  IF Char(str, j) = "]"
  THEN [ok |-> TRUE, v |-> JArr(<< >>), obj |-> << >>, next |-> j + 1]
  ELSE ParseFail

\* A member value starting at i.
ParseJsonValue(str, i) ==
  CASE Char(str, i) = "\"" -> ParseJsonString(str, i)
    [] StartsWithAt(str, i, "true") -> [ok |-> TRUE, v |-> JTrue, obj |-> << >>, next |-> i + 4]
    [] StartsWithAt(str, i, "false") -> [ok |-> TRUE, v |-> JFalse, obj |-> << >>, next |-> i + 5]
    [] StartsWithAt(str, i, "null") -> [ok |-> TRUE, v |-> JNull, obj |-> << >>, next |-> i + 4]
    [] Char(str, i) = "[" -> EmptyArrayEnd(str, SkipWs(str, i + 1))
    [] OTHER -> ParseJsonNumber(str, i)

\* The members of an object from i on, up to and including the closing brace: a key,
\* a colon, a value, then a comma and more members or the brace.
RECURSIVE ParseJsonMembers(_, _, _)
MemberEnd(str, after, members) ==
  IF Char(str, after) = "}"
  THEN [ok |-> TRUE, v |-> JObject, obj |-> members, next |-> after + 1]
  ELSE IF Char(str, after) = "," THEN ParseJsonMembers(str, after + 1, members)
  ELSE ParseFail

MemberValue(str, key, val, acc) ==
  IF ~val.ok THEN ParseFail
  ELSE MemberEnd(str, SkipWs(str, val.next), Append(acc, <<key, val.v>>))

MemberColon(str, key, colon, acc) ==
  IF Char(str, colon) # ":" THEN ParseFail
  ELSE MemberValue(str, key, ParseJsonValue(str, SkipWs(str, colon + 1)), acc)

MemberKey(str, k, acc) ==
  IF ~k.ok THEN ParseFail ELSE MemberColon(str, k.v.s, SkipWs(str, k.next), acc)

ParseJsonMembers(str, i, acc) == MemberKey(str, ParseJsonString(str, SkipWs(str, i)), acc)

\* An object's text after its opening brace.
ObjectFrom(text, j) ==
  IF Char(text, j) = "}"
  THEN [ok |-> TRUE, v |-> JObject, obj |-> << >>, next |-> j + 1]
  ELSE ParseJsonMembers(text, j, << >>)

\* The value that starts at i.
ParseJsonText(text, i) ==
  IF Char(text, i) = "{" THEN ObjectFrom(text, SkipWs(text, i + 1))
  ELSE ParseJsonValue(text, i)

\* Only white space may follow the value.
WholeText(text, r) ==
  IF r.ok /\ SkipWs(text, r.next) = Len(text) + 1 THEN r ELSE ParseFail

JSONparse(text) == WholeText(text, ParseJsonText(text, SkipWs(text, 1)))

\* obj.key of a parse result: the last member of that name, else undefined.
Field(r, key) ==
  LET hits == {k \in 1..Len(r.obj) : r.obj[k][1] = key}
  IN IF hits = {} THEN JUndef
     ELSE r.obj[CHOOSE k \in hits : \A j \in hits : k >= j][2]

\* str.match(/\{[\s\S]*\}/): from the first "{" to the last "}"; "" when no match.
MatchBraces(str) ==
  IF ~includes(str, "{") \/ LastIndexOf(str, "}") < IndexOf(str, "{", 1) THEN ""
  ELSE Slice(str, IndexOf(str, "{", 1), LastIndexOf(str, "}"))


(***************************************************************************)
(* Records and datasets.  A record is the sequence of its <<key, value>>   *)
(* pairs in Object.keys order; a dataset is a sequence of records.         *)
(***************************************************************************)
\* row[column]
Cell(row, column) ==
  LET hits == {k \in 1..Len(row) : row[k][1] = column}
  IN IF hits = {} THEN JUndef ELSE row[CHOOSE k \in hits : TRUE][2]

ObjectKeys(row) == [k \in 1..Len(row) |-> row[k][1]]

ColumnValues(d, column) == [i \in 1..Len(d) |-> Cell(d[i], column)]

Range(seq) == {seq[i] : i \in 1..Len(seq)}

MinOf(a, b) == IF a <= b THEN a ELSE b

\* ToNumber of a string that has been trimmed
StringToNumber(str) ==
  IF str = "" THEN [nan |-> FALSE, n |-> 0]
  ELSE IF AllDigits(str) THEN [nan |-> FALSE, n |-> ParseDigits(str, 0)]
  ELSE IF Char(str, 1) = "-" /\ AllDigits(Rest(str, 2))
       THEN [nan |-> FALSE, n |-> 0 - ParseDigits(Rest(str, 2), 0)]
  ELSE [nan |-> TRUE, n |-> 0]

\* ToNumber, for integers and the strings that spell them; nan marks NaN.
ToNumber(v) ==
  CASE v.t = "number" -> [nan |-> FALSE, n |-> v.n]
    [] v.t = "boolean" -> [nan |-> FALSE, n |-> v.n]
    [] v.t = "null" -> [nan |-> FALSE, n |-> 0]
    [] v.t = "string" -> StringToNumber(trim(v.s))
    [] OTHER -> [nan |-> TRUE, n |-> 0]

\* (num / den).toFixed(2), den > 0: two decimals, a tie rounded away from zero.
toFixed2(num, den) ==
  LET mag == IF num < 0 THEN 0 - num ELSE num
      h == (200 * mag + den) \div (2 * den)
      frac == h % 100
  IN (IF num < 0 THEN "-" ELSE "") \o ToString(h \div 100) \o "."
       \o (IF frac < 10 THEN "0" ELSE "") \o ToString(frac)

ChartPoint(label, count) == [name |-> label, value |-> count]

(***************************************************************************)
(* processDataForChart (the two modules hold the same text).               *)
(***************************************************************************)
MaxBins == 10

MaxCategories == 10

\* new Set of the column's values that are neither undefined nor null
UniqueValues(d, column) ==
  {v \in Range(ColumnValues(d, column)) : v.t \notin {"undefined", "null"}}

\* Ten bins whatever the column holds
BinCountFixed(uniqueSize) == MaxBins

\* Math.min(10, uniqueValues.size)
BinCount(uniqueSize) == MinOf(MaxBins, uniqueSize)

\* The numbers the kept values stand for in Math.min, Math.max and value - min
NumbersOf(kept) == [i \in 1..Len(kept) |-> ToNumber(kept[i]).n]

\* data.map(item => item[column]).filter(val => val !== null && !isNaN(val))
NumericValues(d, column) ==
  NumbersOf(SelectSeq(ColumnValues(d, column), LAMBDA v : v.t # "null" /\ ~ToNumber(v).nan))

\* The index without Math.min(..., binCount - 1)
BinIndexUnclamped(value, min, range, binCount) ==
  IF range = 0 THEN 0 - 1 ELSE ((value - min) * binCount) \div range

\* Math.min(Math.floor((value - min) / binSize), binCount - 1) with binSize = range /
\* binCount, in exact arithmetic.  A zero range makes binSize 0 and the index NaN,
\* which names no bin: -1 here.
BinIndex(value, min, range, binCount) ==
  IF range = 0 THEN 0 - 1
  ELSE MinOf(((value - min) * binCount) \div range, binCount - 1)

\* (min + index * binSize).toFixed(2), " - ", (min + (index + 1) * binSize).toFixed(2)
BinLabel(index, min, range, binCount) ==
  toFixed2(min * binCount + index * range, binCount) \o " - "
    \o toFixed2(min * binCount + (index + 1) * range, binCount)

\* bins[index] once values.forEach has run
BinTally(values, min, range, binCount, index) ==
  Cardinality({i \in 1..Len(values) : BinIndex(values[i], min, range, binCount) = index})

\* bins.map((count, index) => ({ name, value: count }))
BinPoints(values, min, range, binCount) ==
  [k \in 1..binCount |->
     ChartPoint(BinLabel(k - 1, min, range, binCount),
                BinTally(values, min, range, binCount, k - 1))]

\* The bins of values (not empty: the first value of the column is a number)
BinsOf(values, binCount) ==
  BinPoints(values, SetMinOf(Range(values)), SetMaxOf(Range(values)) - SetMinOf(Range(values)),
            binCount)

NumericBins(d, column) ==
  BinsOf(NumericValues(d, column), BinCount(Cardinality(UniqueValues(d, column))))

\* String(curr[column] ?? 'undefined')
CategoryKey(row, column) == JsString(JsNullish(Cell(row, column), JStr("undefined")))

\* An integer-like property name (an array index): listed first, in numeric order.
IsIndexKey(key) ==
  /\ AllDigits(key)
  /\ Len(key) <= 9
  /\ (key = "0" \/ Char(key, 1) # "0")

\* The distinct elements of seq in order of first occurrence.
Distinct(seq) ==
  SelectSeq([i \in 1..Len(seq) |-> IF \E j \in 1..(i - 1) : seq[j] = seq[i] THEN "" ELSE seq[i]],
            LAMBDA k : k # "")
    \o (IF \E i \in 1..Len(seq) : seq[i] = "" THEN <<"">> ELSE << >>)

\* The key of S that spells the least number
LeastIndexKey(S) == CHOOSE x \in S : \A y \in S : ParseDigits(x, 0) <= ParseDigits(y, 0)

RECURSIVE AscendingIndexKeys(_)
LeastFirst(S, k) == <<k>> \o AscendingIndexKeys(S \ {k})

AscendingIndexKeys(S) == IF S = {} THEN << >> ELSE LeastFirst(S, LeastIndexKey(S))

\* The own keys of an object whose string keys were created in the order of created:
\* integer-like keys ascending, then the others in creation order.
OwnKeys(created) ==
  AscendingIndexKeys({k \in Range(created) : IsIndexKey(k)})
    \o SelectSeq(created, LAMBDA k : ~IsIndexKey(k))

\* The points of the keys in own, each with the number of rows that have the key.
CountPoints(keys, own) ==
  [k \in 1..Len(own) |->
     ChartPoint(own[k], Cardinality({i \in 1..Len(keys) : keys[i] = own[k]}))]

\* groupedData's keys, row by row
CategoryKeys(d, column) == [i \in 1..Len(d) |-> CategoryKey(d[i], column)]

\* The entries of an object that counts keys: CountPoints in Object.entries order.
CountEntries(keys) == CountPoints(keys, OwnKeys(Distinct(keys)))

\* Object.entries(groupedData).map(([name, value]) => ({ name, value }))
GroupedEntries(d, column) == CountEntries(CategoryKeys(d, column))

\* .sort((a, b) => b.value - a.value): stable, descending by value
\* The first index of a greatest value
FirstGreatest(points) ==
  CHOOSE i \in 1..Len(points) :
    /\ \A j \in 1..Len(points) : points[j].value <= points[i].value
    /\ \A j \in 1..(i - 1) : points[j].value < points[i].value

WithoutAt(seq, k) == [i \in 1..(Len(seq) - 1) |-> IF i < k THEN seq[i] ELSE seq[i + 1]]

RECURSIVE SortByValueDesc(_)
BestFirst(points, best) == <<points[best]>> \o SortByValueDesc(WithoutAt(points, best))

SortByValueDesc(points) ==
  IF points = << >> THEN << >> ELSE BestFirst(points, FirstGreatest(points))

\* The ranked categories without the slice
EveryCategory(points) == points

\* .slice(0, 10)
TopCategories(points) == SubSeq(points, 1, MinOf(MaxCategories, Len(points)))

processDataForChart(d, column) ==
  IF Len(d) = 0 \/ column = "" THEN << >>
  ELSE IF Cell(d[1], column).t = "number" THEN NumericBins(d, column)
  ELSE TopCategories(SortByValueDesc(GroupedEntries(d, column)))


(***************************************************************************)
(* Optional values (null or undefined state, a missing field).             *)
(***************************************************************************)
None == << >>

Some(x) == <<x>>

(***************************************************************************)
(* Schema inference (handleFileUpload).                                    *)
(***************************************************************************)
\* The tests of typeof alone
detectColumnTypeByTypeof(value) ==
  CASE value.t = "number" -> "number"
    [] value.t = "boolean" -> "boolean"
    [] OTHER -> "string"

\* XLSX.read is called without cellDates, so a sheet's cells are numbers, strings and
\* booleans; the function itself also knows a Date.
detectColumnType(value) ==
  CASE value.t = "number" -> "number"
    [] value.t = "date" -> "datetime"
    [] value.t = "boolean" -> "boolean"
    [] OTHER -> "string"

\* "sales.xlsx".split('.')[0]
BaseName(fileName) ==
  LET dot == IndexOf(fileName, ".", 1)
  IN IF dot = 0 THEN fileName ELSE Slice(fileName, 1, dot - 1)

InferColumns(firstRow) ==
  [k \in 1..Len(firstRow) |->
     [name |-> firstRow[k][1], type |-> detectColumnType(firstRow[k][2])]]

InferSchema(fileName, rows) ==
  [tableName |-> BaseName(fileName), columns |-> InferColumns(rows[1])]

ColumnNames(sch) == [k \in 1..Len(sch.columns) |-> sch.columns[k].name]

(***************************************************************************)
(* The result objects (QueryResult / AnalysisResult).  A field that the    *)
(* object does not carry is JUndef.                                        *)
(***************************************************************************)
Result(answer, sqlQuery, needsChart, chartTypeV, chartDataColumn, chartData) ==
  [answer |-> answer, sqlQuery |-> sqlQuery, needsChart |-> needsChart,
   chartType |-> chartTypeV, chartDataColumn |-> chartDataColumn, chartData |-> chartData]

\* {} and the spread of a primitive
EmptyResult == Result(JUndef, JUndef, JUndef, JUndef, JUndef, JUndef)

GreetingText ==
  "Hello! I'm your data analysis assistant. You can ask me questions about your data, and I'll help you analyze it. For example, try asking about specific columns, averages, trends, or distributions in your data."

greetings == <<"hi", "hello", "hey", "greetings">>

\* The check without toLowerCase and trim
IsGreetingExact(q) == \E k \in 1..Len(greetings) : greetings[k] = q

\* greetings.includes(query.toLowerCase().trim())
IsGreeting(q) == \E k \in 1..Len(greetings) : greetings[k] = trim(toLowerCase(q))

(***************************************************************************)
(* updateChartData, run with the data, schema and chartType of the render  *)
(* that created it.                                                        *)
(***************************************************************************)
\* A point whose value is NaN carries this value (the model's cells are not negative).
NaNPoint == 0 - 1

\* The number text[from..to-1] spells, NaN when it holds no digit.
FloatUpTo(text, from, to, sign) ==
  IF to = from THEN [nan |-> TRUE, n |-> 0]
  ELSE [nan |-> FALSE, n |-> sign * ParseDigits(Slice(text, from, to - 1), 0)]

\* parseFloat of a text without leading white space
FloatOf(text) ==
  IF Char(text, 1) = "-" THEN FloatUpTo(text, 2, DigitsEnd(text, 2), 0 - 1)
  ELSE FloatUpTo(text, 1, DigitsEnd(text, 1), 1)

\* parseFloat: the integer a string starts with (after leading white space), else NaN.
parseFloat(str) == FloatOf(trimStart(str))

\* value?.toString()
OptionalToString(value) ==
  IF value.t \in {"undefined", "null"} THEN JUndef ELSE JStr(JsString(value))

\* A parsed number as a point's value
PointValue(num) == IF num.nan THEN NaNPoint ELSE num.n

\* typeof value === 'number' ? value : parseFloat(value?.toString() || '0')
RowValue(value) ==
  IF value.t = "number" THEN value.n
  ELSE PointValue(parseFloat(JsOr(OptionalToString(value), JStr("0")).s))

RowValuePoints(d, columnName) ==
  [i \in 1..Len(d) |->
     ChartPoint("Row " \o ToString(i), RowValue(Cell(d[i], columnName)))]

\* row[columnName]?.toString() || 'Unknown'
UnknownKey(row, columnName) ==
  JsOr(OptionalToString(Cell(row, columnName)), JStr("Unknown")).s

\* valueCounts' keys, row by row
UnknownKeys(d, columnName) == [i \in 1..Len(d) |-> UnknownKey(d[i], columnName)]

ValueCountPoints(d, columnName) == CountEntries(UnknownKeys(d, columnName))

\* schema.columns.find(col => col.name === columnName), None for undefined
FindColumn(columns, columnName) ==
  IF \E k \in 1..Len(columns) : columns[k].name = columnName
  THEN Some(columns[SetMinOf({k \in 1..Len(columns) : columns[k].name = columnName})])
  ELSE None

\* The chartData of lines 200-220
ColumnSeries(d, column) ==
  IF column.type = "number" THEN RowValuePoints(d, column.name)
  ELSE ValueCountPoints(d, column.name)

\* Lines 222-231
LoadedResult(uiChartType, columnName, chartData) ==
  Result(JStr("Data loaded successfully"), JStr(""), JTrue, JStr(uiChartType),
         JStr(columnName), JArr(chartData))

\* updateChartData once data and schema are known to be set
ChartOfColumn(d, uiChartType, columnName, found) ==
  IF found = None THEN None
  ELSE Some(LoadedResult(uiChartType, columnName, ColumnSeries(d, found[1])))

\* The QueryResult updateChartData sets, None when it returns early.
updateChartData(d, sch, uiChartType, columnName) ==
  IF sch = None THEN None
  ELSE ChartOfColumn(d, uiChartType, columnName, FindColumn(sch[1].columns, columnName))


(***************************************************************************)
(* The reply of the text-generation service to axios.post, as axios hands  *)
(* it to analyzeDataWithAI: the call rejects with an error message, or it  *)
(* resolves with response.data = {error?, response?}.                      *)
(***************************************************************************)
Rejected(message) == [kind |-> "reject", message |-> message, error |-> JUndef, response |-> JUndef]

Resolved(error, response) == [kind |-> "resolve", message |-> "", error |-> error, response |-> response]

\* What an analysis call gives its caller: a returned result, or a thrown error.
Returned(result) == [threw |-> FALSE, message |-> "", result |-> result]

Threw(message) == [threw |-> TRUE, message |-> message, result |-> EmptyResult]

(***************************************************************************)
(* Inputs: the questions a user types, the files a user uploads and the    *)
(* replies the text-generation service sends.                              *)
(***************************************************************************)
MaxTurns == 2

MaxReaders == 1

MaxEvents == 8

ManyRows == 12

GreetingQuestions == {" Hi", "HELLO ", "hey", "\tGreetings\n"}

Questions == GreetingQuestions \cup {"hi there, total by region?"}

SalesRows ==
  << << <<"region", JStr("east")>>, <<"amount", JNum(10)>> >>,
     << <<"region", JStr("west")>>, <<"amount", JNum(25)>> >>,
     << <<"region", JStr("east")>>, <<"amount", JNum(40)>> >> >>

BigRows ==
  [i \in 1..ManyRows |-> << <<"id", JNum(3 * i)>>, <<"tag", JStr("t" \o ToString(i))>> >>]

File(name, rows) == [name |-> name, rows |-> rows]

Files == {File("sales.xlsx", SalesRows), File("big.csv", BigRows), File("empty.xlsx", << >>)}

\* JSON.stringify of a string, as the service writes a chunk into a line of its reply
RECURSIVE JsonEscape(_)
JsonEscape(str) ==
  IF Len(str) <= 1
  THEN (CASE str = "\"" -> "\\\""
          [] str = "\\" -> "\\\\"
          [] str = "\n" -> "\\n"
          [] OTHER -> str)
  ELSE JsonEscape(Slice(str, 1, Len(str) \div 2)) \o JsonEscape(Rest(str, Len(str) \div 2 + 1))

ChunkLine(chunk) == "{\"response\":\"" \o JsonEscape(chunk) \o "\",\"done\":false}"

DoneLine == "{\"response\":\"\",\"done\":true}"

StreamedBody ==
  ChunkLine("{\"answer\":\"East leads\",\"sqlQuery\":\"SELECT region FROM sales\",") \o "\n"
    \o ChunkLine("\"visualization\":\"pie\"}") \o "\n" \o DoneLine \o "\n"

WrappedBody ==
  ChunkLine("Here you go: {\"answer\":\"Total is 75\",\"sqlQuery\":\"\"} Hope it helps.") \o "\n"

ProseBody == ChunkLine("I cannot answer that.") \o "\n" \o DoneLine

NotJsonBody == "Internal Server Error"

\* Replies to fetch that hold no parseable JSON object
MalformedBodies == {ProseBody, NotJsonBody}

FetchBodies == {StreamedBody, WrappedBody} \cup MalformedBodies

ChartReply ==
  Resolved(JUndef, JStr("{\"answer\":\"East leads\",\"sqlQuery\":\"SELECT region FROM sales\",\"needsChart\":true,\"chartType\":\"bar\",\"chartDataColumn\":\"region\"}"))

NoChartReply ==
  Resolved(JUndef, JStr("{\"answer\":\"Total is 75\",\"sqlQuery\":\"SELECT SUM(amount) FROM sales\",\"needsChart\":false,\"chartType\":\"line\",\"chartDataColumn\":\"\"}"))

ProseReply == Resolved(JUndef, JStr("Sales show a rising trend.\n^^^sql\nSELECT 1\n^^^"))

ChartProseReply == Resolved(JUndef, JStr("A bar chart of region fits best."))

ErrorFieldReply == Resolved(JStr("model not found"), JUndef)

ConnectionRefused == Rejected("Network Error")

TimedOut == Rejected("timeout of 30000ms exceeded")

\* Replies to axios.post that are a failure of the service
FailureReplies == {ErrorFieldReply, ConnectionRefused, TimedOut, ProseReply, ChartProseReply}

AxiosReplies == {ChartReply, NoChartReply, ProseReply, ChartProseReply, ErrorFieldReply, ConnectionRefused}

\* A reply that asks for a chart of a column the sheet does not have
AbsentColumnReply ==
  Resolved(JUndef, JStr("{\"answer\":\"Profit by region\",\"sqlQuery\":\"SELECT profit FROM sales\",\"needsChart\":true,\"chartType\":\"bar\",\"chartDataColumn\":\"profit\"}"))

\* A reply whose chartType is none of the three the application draws
ScatterReply ==
  Resolved(JUndef, JStr("{\"answer\":\"Amounts scatter\",\"sqlQuery\":\"\",\"needsChart\":true,\"chartType\":\"scatter\",\"chartDataColumn\":\"amount\"}"))

\* The replies to axios.post that a call of analyzeDataWithAI on its own is given
AnalysisReplies == AxiosReplies \cup FailureReplies \cup {AbsentColumnReply, ScatterReply}

(***************************************************************************)
(* What the string functions make of the texts above.  Each table holds    *)
(* the function's value for every text the inputs hold, so that a text is  *)
(* scanned once and not once per step.                                     *)
(***************************************************************************)
\* The text of response.data.response of every reply
ReplyTexts == {reply.response.s : reply \in AnalysisReplies}

GreetingOfQuestion == [q \in Questions |-> IsGreeting(q)]

\* greetings.includes(query.toLowerCase().trim()) for a question a user types
IsGreetingQuestion(q) == GreetingOfQuestion[q]

JsonOfReply == [text \in ReplyTexts \cup {"{}"} |-> JSONparse(text)]

\* JSON.parse of the text of a reply
JSONparseReply(text) == JsonOfReply[text]

LowerOfReply == [text \in ReplyTexts |-> toLowerCase(text)]

\* llmResponse.toLowerCase()
LowerReply(text) == LowerOfReply[text]

(***************************************************************************)
(* analyzeDataWithAI of src/src/utils/openai.ts.                           *)
(***************************************************************************)
UnexpectedError == "An unexpected error occurred while analyzing data"

\* String(row[selectedColumn] || 'Unknown')
BackfillKey(row, selectedColumn) == JsString(JsOr(Cell(row, selectedColumn), JStr("Unknown")))

\* The aggregated Map's keys, row by row
BackfillKeys(d, selectedColumn) == [i \in 1..Len(d) |-> BackfillKey(d[i], selectedColumn)]

\* A Map's entries, in insertion order
MapEntries(keys) == CountPoints(keys, Distinct(keys))

\* Array.from(aggregatedData.entries()).map(([name, value]) => ({ name, value }))
BackfillSeries(d, selectedColumn) == MapEntries(BackfillKeys(d, selectedColumn))

\* The fields of a parsed reply that the handlers read.
ParsedResult(r) ==
  Result(Field(r, "answer"), Field(r, "sqlQuery"), Field(r, "needsChart"),
         Field(r, "chartType"), Field(r, "chartDataColumn"), Field(r, "chartData"))

\* Lines 111-127: chart data for a result that needs a chart and has none.
OpenaiBackfill(result, sch, d) ==
  IF Truthy(result.needsChart) /\ ~Truthy(result.chartData)
  THEN [result EXCEPT !.chartData =
          JArr(BackfillSeries(d, JsString(JsOr(result.chartDataColumn,
                                               JStr(sch[1].columns[1].name)))))]
  ELSE result

\* The inner catch rethrows the axios import (isAxiosError of it is false), which is
\* no Error, so the outer catch throws UnexpectedError whatever went wrong.
OpenaiRethrow(cause) == Threw(UnexpectedError)

\* result.chartDataColumn || schema.columns[0].name throws for a schema without columns
BackfillThrows(result, sch) ==
  /\ Truthy(result.needsChart)
  /\ ~Truthy(result.chartData)
  /\ ~Truthy(result.chartDataColumn)
  /\ Len(sch[1].columns) = 0

\* Lines 111-129 for the parsed result
OpenaiReturn(result, sch, d) ==
  IF BackfillThrows(result, sch) THEN OpenaiRethrow("TypeError")
  ELSE Returned(OpenaiBackfill(result, sch, d))

\* Lines 109-129: JSON.parse of a text that is no JSON throws, and so does null.needsChart
OpenaiParsed(parsed, sch, d) ==
  IF ~parsed.ok \/ parsed.v.t = "null" THEN OpenaiRethrow("SyntaxError or TypeError")
  ELSE OpenaiReturn(ParsedResult(parsed), sch, d)

analyzeDataWithAI_openai(q, sch, d, reply) ==
  IF sch = None THEN Threw("Cannot read properties of null (reading 'columns')")
  ELSE IF reply.kind = "reject" THEN OpenaiRethrow(reply.message)
  ELSE IF Truthy(reply.error) THEN OpenaiRethrow(reply.error.s)
  ELSE OpenaiParsed(JSONparseReply(JsOr(reply.response, JStr("{}")).s), sch, d)

(***************************************************************************)
(* analyzeDataWithAI of the module appended to src/src/App.tsx.            *)
(***************************************************************************)
\* A TLA+ string holds no backquote: the model writes the fence of a code block as ^^^.
SqlFenceOpen == "^^^sql\n"

SqlFenceClose == "\n^^^"

\* The first match of /^^^sql\n([\s\S]*?)\n^^^/ at or after from: [at, end, body], at = 0
\* when there is none.
SqlBlockAt(text, open, close) ==
  IF open = 0 \/ close = 0 THEN [at |-> 0, end |-> 0, body |-> ""]
  ELSE [at |-> open, end |-> close + Len(SqlFenceClose) - 1,
        body |-> Slice(text, open + Len(SqlFenceOpen), close - 1)]

SqlBlockFrom(text, open) ==
  SqlBlockAt(text, open,
             IF open = 0 THEN 0 ELSE IndexOf(text, SqlFenceClose, open + Len(SqlFenceOpen)))

SqlBlock(text, from) == SqlBlockFrom(text, IndexOf(text, SqlFenceOpen, from))

\* llmResponse.replace(/^^^sql\n[\s\S]*?\n^^^/g, '')
RECURSIVE RemoveSqlBlocks(_)
RemoveMatch(text, m) ==
  IF m.at = 0 THEN text
  ELSE Slice(text, 1, m.at - 1) \o RemoveSqlBlocks(Rest(text, m.end + 1))

RemoveSqlBlocks(text) == RemoveMatch(text, SqlBlock(text, 1))

\* Lines 1369-1373 for the response in lower case
ChartTypeOf(responseLower) ==
  IF includes(responseLower, "pie chart") THEN JStr("pie")
  ELSE IF includes(responseLower, "bar chart") \/ includes(responseLower, "histogram")
       THEN JStr("bar")
  ELSE IF includes(responseLower, "line chart") \/ includes(responseLower, "trend")
       THEN JStr("line")
  ELSE JNull

determineChartType(response) == ChartTypeOf(toLowerCase(response))

\* columns.find(pred)?.name, "" when pred holds of no column
FirstColumnName(columns, hits) == IF hits = {} THEN "" ELSE columns[SetMinOf(hits)].name

\* Lines 1379-1389 for the response in lower case: the first column it mentions, else
\* the first numeric column, else the first column.
ChartColumnOf(responseLower, columns) ==
  IF \E k \in 1..Len(columns) : includes(responseLower, toLowerCase(columns[k].name))
  THEN FirstColumnName(columns, {k \in 1..Len(columns) :
                                   includes(responseLower, toLowerCase(columns[k].name))})
  ELSE IF \E k \in 1..Len(columns) : columns[k].type = "number"
       THEN FirstColumnName(columns, {k \in 1..Len(columns) : columns[k].type = "number"})
  ELSE columns[1].name

\* columns is not empty (the caller handles columns[0] of an empty list throwing)
determineChartColumn(response, columns) == ChartColumnOf(toLowerCase(response), columns)

AppApology(errorMessage) ==
  "I apologize, but I encountered an issue while processing your request. " \o errorMessage
    \o ". Please try asking a more specific question about your data."

\* The catch of lines 1285-1312 (schema and schema.columns are set when it is reached).
AppCatch(errorMessage) ==
  Returned(Result(JStr(AppApology(errorMessage)), JStr(""), JFalse, JNull, JStr(""),
                  JArr(<< >>)))

AppGreeting ==
  Returned(Result(JStr(GreetingText), JStr(""), JFalse, JNull, JStr(""), JArr(<< >>)))

\* needsChart of line 1274 for the response in lower case
NeedsChartOf(responseLower) ==
  includes(responseLower, "visualiz") \/ includes(responseLower, "chart")

AppNeedsChart(llmResponse) == NeedsChartOf(toLowerCase(llmResponse))

\* Line 1271: sqlMatch ? sqlMatch[1].trim() : ''
SqlQueryOf(sqlMatch) == IF sqlMatch.at = 0 THEN "" ELSE trim(sqlMatch.body)

\* Lines 1270-1276 but for chartDataColumn, which the schema decides with the text
TextResult(llmResponse) ==
  Result(JStr(trim(RemoveSqlBlocks(llmResponse))), JStr(SqlQueryOf(SqlBlock(llmResponse, 1))),
         JBool(AppNeedsChart(llmResponse)), determineChartType(llmResponse), JStr(""), JUndef)

TextResultOfReply == [text \in ReplyTexts |-> TextResult(text)]

\* Lines 1280-1282
AppChartData(needsChart, column, d) ==
  IF Truthy(needsChart) /\ column # "" THEN JArr(processDataForChart(d, column)) ELSE JUndef

\* Lines 1276-1283 for the result of the text
WithChartColumn(result, column, d) ==
  [result EXCEPT !.chartDataColumn = JStr(column),
                 !.chartData = AppChartData(result.needsChart, column, d)]

AppResult(llmResponse, sch, d) ==
  WithChartColumn(TextResultOfReply[llmResponse],
                  ChartColumnOf(LowerReply(llmResponse), sch[1].columns), d)

analyzeDataWithAI_app(q, sch, d, reply) ==
  IF IsGreetingQuestion(q) THEN AppGreeting
  ELSE IF sch = None THEN Threw("Cannot read properties of null (reading 'columns')")
  ELSE IF reply.kind = "reject" THEN AppCatch(reply.message)
  ELSE IF ~Truthy(reply.response) THEN AppCatch("Invalid response from Ollama")
  ELSE IF Len(sch[1].columns) = 0
       THEN AppCatch("Cannot read properties of undefined (reading 'name')")
  ELSE Returned(AppResult(reply.response.s, sch, d))


(***************************************************************************)
(* handleQuerySubmit: the pieces of the handler.                           *)
(***************************************************************************)
NoJsonApology ==
  "I apologize, but I couldn't analyze the text properly. Could you please rephrase your question?"

ParseErrorApology ==
  "I apologize, but I encountered an error processing the response. Could you please try again?"

LlmData(parse, answer, sqlQuery, visualization) ==
  [parse |-> parse, answer |-> answer, sqlQuery |-> sqlQuery, visualization |-> visualization]

NoLlmData == LlmData("none", JUndef, JUndef, JUndef)

\* str.split('\n')
RECURSIVE SplitLines(_)
SplitLines(str) ==
  IF ~includes(str, "\n") THEN <<str>>
  ELSE <<Slice(str, 1, IndexOf(str, "\n", 1) - 1)>>
         \o SplitLines(Rest(str, IndexOf(str, "\n", 1) + 1))

RECURSIVE JoinStrings(_)
JoinStrings(parts) ==
  IF parts = << >> THEN "" ELSE Head(parts) \o JoinStrings(Tail(parts))

\* The catch of lines 379-387
ParseErrorData == LlmData("error", JStr(ParseErrorApology), JStr(""), JNull)

\* Lines 376-381
NoMatchData == LlmData("nomatch", JStr(NoJsonApology), JStr(""), JNull)

\* Line 374: llmData = JSON.parse(jsonMatch[0]), of which the handler reads three fields
ParsedData(inner) ==
  IF ~inner.ok THEN ParseErrorData
  ELSE LlmData("ok", Field(inner, "answer"), Field(inner, "sqlQuery"),
               Field(inner, "visualization"))

\* Lines 372-381
MatchedData(jsonMatch) ==
  IF jsonMatch = "" THEN NoMatchData ELSE ParsedData(JSONparse(jsonMatch))

\* .map(json => json.response).join('') of the chunks that have a response
CombinedResponse(chunks) ==
  JoinStrings([k \in 1..Len(chunks) |-> JsString(Field(chunks[k], "response"))])

\* Lines 364-372: a line that is no JSON, or that is null, throws
ChunksData(jsons) ==
  IF \E k \in 1..Len(jsons) : ~jsons[k].ok \/ jsons[k].v.t = "null" THEN ParseErrorData
  ELSE MatchedData(MatchBraces(CombinedResponse(
         SelectSeq(jsons, LAMBDA json : Truthy(Field(json, "response"))))))

\* Lines 361-363
LinesData(lines) == ChunksData([k \in 1..Len(lines) |-> JSONparse(lines[k])])

\* Lines 359-388: llmData from the text of the reply to fetch.
ParseReply(responseText) ==
  LinesData(SelectSeq(SplitLines(responseText), LAMBDA line : trim(line) # ""))

LlmDataOfBody == [body \in FetchBodies |-> ParseReply(body)]

\* llmData for the text of a reply to fetch
ParseFetchBody(responseText) == LlmDataOfBody[responseText]

\* The guard without its data test
AcceptsWithoutData(d, q, analyzing) == q # "" /\ ~analyzing

\* The guard without its isAnalyzing test
AcceptsWhileAnalyzing(d, q, analyzing) == Len(d) # 0 /\ q # ""

\* Line 288: a submit goes on only with data, a question and nothing in flight.
Accepts(d, q, analyzing) == Len(d) # 0 /\ q # "" /\ ~analyzing

Message(role, content) == [role |-> role, content |-> content]

\* Lines 298-309
GreetingResult == Result(JStr(GreetingText), JStr(""), JFalse, JNull, JStr(""), JUndef)

\* Lines 411-413 (every thrown value of the model is an Error)
ErrorMessage(message) ==
  "I apologize, but I encountered an error while processing your query: " \o message

\* The result with the error's own message for answer
ErrorResultRaw(message) ==
  Result(JStr(message), JStr(""), JFalse, JNull, JStr(""), JUndef)

\* Lines 420-426
ErrorResult(message) ==
  Result(JStr(ErrorMessage(message)), JStr(""), JFalse, JNull, JStr(""), JUndef)

\* Lines 394-397: the assistant's entry on success
SuccessContent(llmData, result) == JsOr(llmData.answer, result.answer)

\* Lines 400-405
MergedResult(llmData, result) ==
  [result EXCEPT !.answer = JsOr(llmData.answer, result.answer),
                 !.sqlQuery = JsOr(llmData.sqlQuery, result.sqlQuery),
                 !.chartType = JsOr(llmData.visualization, result.chartType)]

\* The flag when nothing clears it
StillAnalyzing == TRUE

\* Lines 427-429: the value isAnalyzing has once the handler is done
FinallyIsAnalyzing == FALSE


(***************************************************************************)
(* The session: the state of App, the FileReaders that have not loaded     *)
(* yet, and the calls of handleQuerySubmit that are awaiting the service.  *)
(***************************************************************************)
VARIABLES
  uploadedFile,    \* the name of the chosen file, "" for null
  query,
  schema,          \* None for null
  data,
  queryResult,     \* None for null
  selectedColumn,
  isAnalyzing,
  conversation,
  chartType,
  readers,         \* FileReader.onload callbacks to come, each with the render it closes over
  flights,         \* suspended handleQuerySubmit calls, each with the render it closes over
  analysisModule,  \* the module whose analyzeDataWithAI utils/api analyzeData runs
  events,          \* the number of events the session has handled
  probe            \* the argument and result of a function checked on its own

vars ==
  <<uploadedFile, query, schema, data, queryResult, selectedColumn, isAnalyzing,
    conversation, chartType, readers, flights, analysisModule, events, probe>>

appVars ==
  <<uploadedFile, query, schema, data, queryResult, selectedColumn, isAnalyzing,
    conversation, chartType, readers, flights>>

NoProbe == [kind |-> "none"]

\* analyzeDataWithAI as the named module defines it
analyzeDataWithAI(module, q, sch, d, reply) ==
  IF module = "openai" THEN analyzeDataWithAI_openai(q, sch, d, reply)
  ELSE analyzeDataWithAI_app(q, sch, d, reply)

\* Whether the call reaches its axios.post: building schemaInfo throws for a null
\* schema in both modules, and only the module of App.tsx returns early for a greeting.
PostsRequest(module, q, sch) ==
  /\ sch # None
  /\ module = "app" => ~IsGreetingQuestion(q)

AnalysisModules == {"openai", "app"}

\* The state of App after its first render
Mounted ==
  /\ uploadedFile = ""
  /\ query = ""
  /\ schema = None
  /\ data = << >>
  /\ queryResult = None
  /\ selectedColumn = ""
  /\ isAnalyzing = FALSE
  /\ conversation = << >>
  /\ chartType = "pie"
  /\ readers = << >>
  /\ flights = << >>
  /\ analysisModule \in AnalysisModules
  /\ events = 0

Init == Mounted /\ probe = NoProbe

\* analyzeData of utils/api, which src/ does not hold: it runs one of the two
\* analyzeDataWithAI, the same one for the whole session.
analyzeData(q, sch, d, reply) == analyzeDataWithAI(analysisModule, q, sch, d, reply)

\* analyzeQuery, lines 272-284
analyzeQuery(q, sch, d, reply) ==
  IF sch = None \/ Len(d) = 0 THEN Threw("Please upload data first")
  ELSE analyzeData(q, sch, d, reply)

\* One more event of the session: something the user or the service does
Tick == events < MaxEvents /\ events' = events + 1

RemoveAt(seq, k) == [i \in 1..(Len(seq) - 1) |-> IF i < k THEN seq[i] ELSE seq[i + 1]]

UserCount == Cardinality({i \in 1..Len(conversation) : conversation[i].role = "user"})

\* onChange of the question box, which is disabled while a question is analyzed
typeQuery(q) ==
  /\ ~isAnalyzing
  /\ Tick
  /\ query' = q
  /\ UNCHANGED <<uploadedFile, schema, data, queryResult, selectedColumn, isAnalyzing,
                 conversation, chartType, readers, flights, analysisModule, probe>>

\* The chart type buttons
setChartType(type) ==
  /\ chartType' = type
  /\ Tick
  /\ UNCHANGED <<uploadedFile, query, schema, data, queryResult, selectedColumn, isAnalyzing,
                 conversation, readers, flights, analysisModule, probe>>

\* handleFileUpload up to reader.readAsArrayBuffer(file)
handleFileUpload(file) ==
  /\ Len(readers) < MaxReaders
  /\ Tick
  /\ uploadedFile' = file.name
  /\ readers' = Append(readers, [file |-> file, data |-> data, schema |-> schema,
                                 chartType |-> chartType])
  /\ UNCHANGED <<query, schema, data, queryResult, selectedColumn, isAnalyzing,
                 conversation, chartType, flights, analysisModule, probe>>

\* setQueryResult of an updateChartData call that may have returned early
ChartShown(chart) == queryResult' = IF chart = None THEN queryResult ELSE chart

\* An onload that sets the schema of the sheet and leaves the records as they were
SheetLoadedSchemaOnly(reader, rows, columns) ==
  /\ schema' = Some([tableName |-> BaseName(reader.file.name), columns |-> columns])
  /\ data' = data
  /\ UNCHANGED <<selectedColumn, queryResult>>

\* Lines 252-264, for the rows of a sheet that has some
SheetLoaded(reader, rows, columns) ==
  /\ schema' = Some([tableName |-> BaseName(reader.file.name), columns |-> columns])
  /\ data' = rows
  /\ IF Len(columns) > 0
     THEN /\ selectedColumn' = columns[1].name
          /\ ChartShown(updateChartData(reader.data, reader.schema, reader.chartType,
                                        columns[1].name))
     ELSE UNCHANGED <<selectedColumn, queryResult>>

\* reader.onload
readerOnload(k) ==
  /\ Tick
  /\ readers' = RemoveAt(readers, k)
  /\ IF Len(readers[k].file.rows) > 0
     THEN SheetLoaded(readers[k], readers[k].file.rows, InferColumns(readers[k].file.rows[1]))
     ELSE UNCHANGED <<schema, data, selectedColumn, queryResult>>
  /\ UNCHANGED <<uploadedFile, query, isAnalyzing, conversation, chartType, flights,
                 analysisModule, probe>>

\* onChange of the column selector, which is shown for a schema with columns
selectColumn(columnName) ==
  /\ schema # None
  /\ columnName \in Range(ColumnNames(schema[1]))
  /\ Tick
  /\ selectedColumn' = columnName
  /\ ChartShown(updateChartData(data, schema, chartType, columnName))
  /\ UNCHANGED <<uploadedFile, query, schema, data, isAnalyzing, conversation, chartType,
                 readers, flights, analysisModule, probe>>

Flight(pc, q, sch, d, responseText, llmData) ==
  [pc |-> pc, query |-> q, schema |-> sch, data |-> d, responseText |-> responseText,
   llmData |-> llmData]

\* handleQuerySubmit up to its first await (the greeting path has none)
handleQuerySubmit ==
  /\ Accepts(data, query, isAnalyzing) => UserCount < MaxTurns
  /\ IF ~Accepts(data, query, isAnalyzing)
     THEN UNCHANGED <<query, queryResult, isAnalyzing, conversation, flights, events>>
     ELSE IF IsGreetingQuestion(query)
     THEN /\ conversation' = conversation \o <<Message("user", JStr(query)),
                                                Message("assistant", JStr(GreetingText))>>
          /\ queryResult' = Some(GreetingResult)
          /\ Tick
          /\ query' = ""
          /\ isAnalyzing' = FinallyIsAnalyzing
          /\ UNCHANGED flights
     ELSE /\ conversation' = Append(conversation, Message("user", JStr(query)))
          /\ isAnalyzing' = TRUE
          /\ Tick
          /\ flights' = Append(flights, Flight("fetch", query, schema, data, "", NoLlmData))
          /\ UNCHANGED <<query, queryResult>>
  /\ UNCHANGED <<uploadedFile, schema, data, selectedColumn, chartType, readers,
                 analysisModule, probe>>

\* A catch that sets the result and appends nothing to the conversation
CaughtSilently(k, message) ==
  /\ queryResult' = Some(ErrorResult(message))
  /\ isAnalyzing' = FinallyIsAnalyzing
  /\ flights' = RemoveAt(flights, k)
  /\ UNCHANGED <<uploadedFile, query, schema, data, selectedColumn, chartType, readers,
                 analysisModule, probe, conversation>>

\* The catch and finally of handleQuerySubmit for flight k
Caught(k, message) ==
  /\ conversation' = Append(conversation, Message("assistant", JStr(ErrorMessage(message))))
  /\ queryResult' = Some(ErrorResult(message))
  /\ isAnalyzing' = FinallyIsAnalyzing
  /\ flights' = RemoveAt(flights, k)
  /\ UNCHANGED <<uploadedFile, query, schema, data, selectedColumn, chartType, readers,
                 analysisModule, probe>>

\* fetch resolves with the response's headers
fetchResolves(k) ==
  /\ flights[k].pc = "fetch"
  /\ flights' = [flights EXCEPT ![k].pc = "text"]
  /\ Tick
  /\ UNCHANGED <<uploadedFile, query, schema, data, queryResult, selectedColumn, isAnalyzing,
                 conversation, chartType, readers, analysisModule, probe>>

\* fetch rejects: the service cannot be reached
fetchRejects(k) ==
  /\ flights[k].pc = "fetch"
  /\ Tick
  /\ Caught(k, "Failed to fetch")

\* llmResponse.text() resolves; the reply is parsed and analyzeQuery starts axios.post
textResolves(k, responseText) ==
  /\ flights[k].pc = "text"
  /\ flights' = [flights EXCEPT ![k].pc = "analyze", ![k].responseText = responseText,
                                ![k].llmData = ParseFetchBody(responseText)]
  /\ Tick
  /\ UNCHANGED <<uploadedFile, query, schema, data, queryResult, selectedColumn, isAnalyzing,
                 conversation, chartType, readers, analysisModule, probe>>

\* llmResponse.text() rejects: the connection drops while the body is read
textRejects(k) ==
  /\ flights[k].pc = "text"
  /\ Tick
  /\ Caught(k, "network error")

\* Lines 393-406 and the finally, for flight k whose analysis call returned result
Succeeded(k, llmData, result) ==
  /\ conversation' = Append(conversation, Message("assistant", SuccessContent(llmData, result)))
  /\ queryResult' = Some(MergedResult(llmData, result))
  /\ query' = ""
  /\ isAnalyzing' = FinallyIsAnalyzing
  /\ flights' = RemoveAt(flights, k)
  /\ UNCHANGED <<uploadedFile, schema, data, selectedColumn, chartType, readers,
                 analysisModule, probe>>

\* The handler of flight k goes on from await analyzeQuery(query), which gave out
Resumes(k, out) ==
  IF out.threw THEN Caught(k, out.message) ELSE Succeeded(k, flights[k].llmData, out.result)

\* A handler that reads the schema and the records of the latest render when it resumes
SettlesOnLatest(k, reply) ==
  /\ flights[k].pc = "analyze"
  /\ Resumes(k, analyzeQuery(flights[k].query, schema, data, reply))

\* The analysis call settles with the service's reply, and the handler runs to its end
Settles(k, reply) ==
  /\ flights[k].pc = "analyze"
  /\ Resumes(k, analyzeQuery(flights[k].query, flights[k].schema, flights[k].data, reply))

\* The service replies to axios.post, or the connection fails
axiosSettles(k, reply) == Tick /\ Settles(k, reply)

\* timeout: 30000: axios rejects by itself once the time is up
axiosTimeout(k) == Settles(k, TimedOut) /\ UNCHANGED events

Next ==
  \/ \E q \in Questions \cup {""} : typeQuery(q)
  \/ \E type \in {"pie", "bar", "line"} : setChartType(type)
  \/ \E file \in Files : handleFileUpload(file)
  \/ \E k \in 1..Len(readers) : readerOnload(k)
  \/ \E columnName \in {"region", "amount", "id", "tag"} : selectColumn(columnName)
  \/ handleQuerySubmit
  \/ \E k \in 1..Len(flights) : fetchResolves(k)
  \/ \E k \in 1..Len(flights) : fetchRejects(k)
  \/ \E k \in 1..Len(flights), body \in FetchBodies : textResolves(k, body)
  \/ \E k \in 1..Len(flights) : textRejects(k)
  \/ \E k \in 1..Len(flights), reply \in AxiosReplies : axiosSettles(k, reply)
  \/ \E k \in 1..Len(flights) : axiosTimeout(k)

Spec == Init /\ [][Next]_vars

(***************************************************************************)
(* processDataForChart on its own: a call on a dataset of up to ManyRows   *)
(* rows whose column v cycles through a number of values of one kind; the  *)
(* column w is in no row.                                                  *)
(***************************************************************************)
CellKinds ==
  {"number", "string", "digits", "boolean", "null", "numberThenNull", "squares", "stringOrNull"}

CellOf(kind, i, distinct) ==
  CASE kind = "number" -> JNum(7 * (i % distinct))
    [] kind = "string" -> JStr("c" \o ToString(i % distinct))
    [] kind = "digits" -> JStr(ToString((distinct - (i % distinct)) * 5))
    [] kind = "boolean" -> JBool(i % distinct = 0)
    [] kind = "null" -> JNull
    [] kind = "squares" -> JNum((i % distinct) * (i % distinct) - 20)
    [] kind = "stringOrNull" ->
         IF i % (distinct + 1) = 0 THEN JNull ELSE JStr("c" \o ToString(i % (distinct + 1)))
    [] OTHER -> IF i = 1 THEN JNum(4) ELSE IF i % 2 = 0 THEN JNull ELSE JNum(i % distinct)

ChartDataset(kind, rows, distinct) ==
  [i \in 1..rows |-> << <<"v", CellOf(kind, i, distinct)>> >>]

ChartDatasets ==
  {ChartDataset(kind, rows, distinct) :
     kind \in CellKinds, rows \in 0..ManyRows, distinct \in 1..ManyRows}

\* The ages of the specification's example of binning
AgeRows == [i \in 1..4 |-> << <<"age", JNum(<<20, 25, 30, 90>>[i])>> >>]

ChartCall(d, column) ==
  [kind |-> "processDataForChart", d |-> d, column |-> column, done |-> FALSE, out |-> << >>]

InitChart ==
  /\ Mounted
  /\ probe \in {ChartCall(d, column) : d \in ChartDatasets, column \in {"v", "w", ""}}
                 \cup {ChartCall(AgeRows, "age")}

callProcessDataForChart ==
  /\ probe.kind = "processDataForChart"
  /\ ~probe.done
  /\ probe' = [probe EXCEPT !.done = TRUE, !.out = processDataForChart(probe.d, probe.column)]
  /\ UNCHANGED <<appVars, analysisModule, events>>

NextChart == callProcessDataForChart

SpecChart == InitChart /\ [][NextChart]_vars

(***************************************************************************)
(* analyzeDataWithAI on its own: a call of either module's function with a *)
(* question, an uploaded sheet and the reply the service gives to its      *)
(* request.                                                                *)
(***************************************************************************)
AnalysisCall(q, file, reply) ==
  [kind |-> "analyzeDataWithAI", query |-> q,
   schema |-> Some(InferSchema(file.name, file.rows)), data |-> file.rows,
   reply |-> reply, done |-> FALSE, out |-> Threw("")]

InitAnalyze ==
  /\ Mounted
  /\ probe \in {AnalysisCall(q, file, reply) :
                  q \in Questions, file \in {f \in Files : Len(f.rows) > 0},
                  reply \in AnalysisReplies}

callAnalyzeDataWithAI ==
  /\ probe.kind = "analyzeDataWithAI"
  /\ ~probe.done
  /\ probe' = [probe EXCEPT !.done = TRUE,
                            !.out = analyzeDataWithAI(analysisModule, probe.query, probe.schema,
                                                      probe.data, probe.reply)]
  /\ UNCHANGED <<appVars, analysisModule, events>>

NextAnalyze == callAnalyzeDataWithAI

SpecAnalyze == InitAnalyze /\ [][NextAnalyze]_vars

(***************************************************************************)
(* The column statistics of analyzeDataWithAI (schemaInfo).                *)
(***************************************************************************)
\* The values of the column that pass item[col.name] !== undefined && !== null
PresentValues(d, column) ==
  SelectSeq(ColumnValues(d, column), LAMBDA v : v.t \notin {"undefined", "null"})

\* String(item[col.name]) of each such value
StringsOf(values) == [i \in 1..Len(values) |-> JsString(values[i])]

\* The object schemaInfo holds for a column
ColumnProfile(column, type, uniqueCount, totalCount, valueCounts) ==
  [name |-> column, type |-> type, uniqueCount |-> uniqueCount,
   totalCount |-> totalCount, valueCounts |-> valueCounts]

\* App.tsx: a set and a tally of the stringified values
ProfileOfStrings(col, d, keys) ==
  ColumnProfile(col.name, col.type, Cardinality(Range(keys)), Len(d), Some(CountEntries(keys)))

schemaInfoColumn_app(col, d) ==
  ProfileOfStrings(col, d, StringsOf(PresentValues(d, col.name)))

\* utils/openai.ts: a set of the values themselves, and no tally
schemaInfoColumn_openai(col, d) ==
  ColumnProfile(col.name, col.type, Cardinality(UniqueValues(d, col.name)), Len(d), None)

\* schema.columns.map(col => ...)
schemaInfo(module, columns, d) ==
  [k \in 1..Len(columns) |->
     IF module = "openai" THEN schemaInfoColumn_openai(columns[k], d)
     ELSE schemaInfoColumn_app(columns[k], d)]

(***************************************************************************)
(* The statistics on their own: either module's schemaInfo of a dataset    *)
(* whose schema was inferred from its first record, and then the series of *)
(* the first column.                                                       *)
(***************************************************************************)
ProfileCall(d) ==
  [kind |-> "schemaInfo", d |-> d, columns |-> InferColumns(d[1]), pc |-> "start",
   info |-> << >>, series |-> << >>]

InitProfile ==
  /\ Mounted
  /\ probe \in {ProfileCall(d) : d \in {x \in ChartDatasets : Len(x) > 0}}

callSchemaInfo ==
  /\ probe.kind = "schemaInfo"
  /\ probe.pc = "start"
  /\ probe' = [probe EXCEPT !.pc = "profiled",
                            !.info = schemaInfo(analysisModule, probe.columns, probe.d)]
  /\ UNCHANGED <<appVars, analysisModule, events>>

chartFirstColumn ==
  /\ probe.kind = "schemaInfo"
  /\ probe.pc = "profiled"
  /\ probe' = [probe EXCEPT !.pc = "charted",
                            !.series = processDataForChart(probe.d, probe.columns[1].name)]
  /\ UNCHANGED <<appVars, analysisModule, events>>

NextProfile == callSchemaInfo \/ chartFirstColumn

SpecProfile == InitProfile /\ [][NextProfile]_vars

(***************************************************************************)
(* Schema inference on its own: the schema of a parsed sheet whose first   *)
(* record has one or two keys with values of every kind, and whose second  *)
(* record, when there is one, differs from the first.                      *)
(***************************************************************************)
SampleValues == {JNum(3), JDate(86400000), JBool(TRUE), JStr("x"), JStr("12"), JNull}

FirstRecords ==
  {<< <<k, v>> >> : k \in {"a", "b"}, v \in SampleValues}
    \cup {<< <<k[1], v>>, <<k[2], w>> >> :
            k \in {<<"a", "b">>, <<"b", "a">>, <<"10", "b">>}, v \in SampleValues, w \in SampleValues}

\* A record with the keys of row and other values, or with another key
LaterRecords(row) ==
  {[k \in 1..Len(row) |-> <<row[k][1], v>>] : v \in {JStr("later"), JNum(0), JBool(FALSE)}}
    \cup {<< <<"z", JNum(1)>> >> \o row}

ParsedSheets ==
  {<<row>> : row \in FirstRecords}
    \cup {<<row, later>> : row \in {r \in FirstRecords : Len(r) = 2 /\ r[1][2] # r[2][2]},
                           later \in LaterRecords(<< <<"a", JNull>>, <<"b", JNull>> >>)}

InferCall(rows) ==
  [kind |-> "inferSchema", file |-> File("sheet.v2.xlsx", rows), done |-> FALSE,
   out |-> [tableName |-> "", columns |-> << >>]]

InitInfer ==
  /\ Mounted
  /\ probe \in {InferCall(rows) : rows \in ParsedSheets}

callInferSchema ==
  /\ probe.kind = "inferSchema"
  /\ ~probe.done
  /\ probe' = [probe EXCEPT !.done = TRUE,
                            !.out = InferSchema(probe.file.name, probe.file.rows)]
  /\ UNCHANGED <<appVars, analysisModule, events>>

NextInfer == callInferSchema

SpecInfer == InitInfer /\ [][NextInfer]_vars

(***************************************************************************)
(* The prompts sent to the text-generation service.                        *)
(***************************************************************************)
\* JSON.stringify of a value a record holds
StringifyValue(v) ==
  CASE v.t = "string" -> "\"" \o JsonEscape(v.s) \o "\""
    [] v.t = "number" -> ToString(v.n)
    [] v.t = "boolean" -> (IF v.n = 1 THEN "true" ELSE "false")
    [] OTHER -> "null"

\* texts.join(sep)
RECURSIVE JoinTexts(_, _)
JoinTexts(texts, sep) ==
  IF texts = << >> THEN ""
  ELSE IF Len(texts) = 1 THEN texts[1]
  ELSE texts[1] \o sep \o JoinTexts(Tail(texts), sep)

\* JSON.stringify(..., null, 2) of an object or an array with the given members, at
\* the indentation of the line it starts on
Braced(open, members, close, indent) ==
  IF members = << >> THEN open \o close
  ELSE open \o "\n" \o indent \o "  " \o JoinTexts(members, ",\n" \o indent \o "  ")
         \o "\n" \o indent \o close

MemberText(key, text) == "\"" \o JsonEscape(key) \o "\": " \o text

StringifyRecord(row, indent) ==
  Braced("{", [k \in 1..Len(row) |-> MemberText(row[k][1], StringifyValue(row[k][2]))], "}",
         indent)

StringifyRecords(d, indent) ==
  Braced("[", [i \in 1..Len(d) |-> StringifyRecord(d[i], indent \o "  ")], "]", indent)

StringifyColumn(col, indent) ==
  Braced("{", <<MemberText("name", StringifyValue(JStr(col.name))),
                MemberText("type", StringifyValue(JStr(col.type)))>>, "}", indent)

StringifyColumns(columns, indent) ==
  Braced("[", [k \in 1..Len(columns) |-> StringifyColumn(columns[k], indent \o "  ")], "]",
         indent)

\* JSON.stringify(schema, null, 2)
StringifySchema(sch) ==
  IF sch = None THEN "null"
  ELSE Braced("{", <<MemberText("tableName", StringifyValue(JStr(sch[1].tableName))),
                     MemberText("columns", StringifyColumns(sch[1].columns, "  "))>>, "}", "")

StringifyCounts(points, indent) ==
  Braced("{", [k \in 1..Len(points) |-> MemberText(points[k].name, ToString(points[k].value))],
         "}", indent)

StringifyProfile(p, indent) ==
  Braced("{",
         <<MemberText("name", StringifyValue(JStr(p.name))),
           MemberText("type", StringifyValue(JStr(p.type))),
           MemberText("uniqueCount", ToString(p.uniqueCount)),
           MemberText("totalCount", ToString(p.totalCount))>>
           \o (IF p.valueCounts = None THEN << >>
               ELSE <<MemberText("valueCounts", StringifyCounts(p.valueCounts[1], indent \o "  "))>>),
         "}", indent)

\* JSON.stringify(schemaInfo, null, 2)
StringifyProfiles(info) ==
  Braced("[", [k \in 1..Len(info) |-> StringifyProfile(info[k], "  ")], "]", "")

\* data.slice(0, 5)
SampleData(d) == SubSeq(d, 1, MinOf(5, Len(d)))

\* schema?.columns.map(col => `${col.name} (${col.type})`).join(', ')
AvailableColumns(sch) ==
  IF sch = None THEN "undefined"
  ELSE JoinTexts([k \in 1..Len(sch[1].columns) |->
                    sch[1].columns[k].name \o " (" \o sch[1].columns[k].type \o ")"], ", ")

\* The template literal of lines 330-352
QueryPrompt(schemaText, sampleText, availableColumns, currentQuery) ==
  "You are a helpful data analysis assistant. Given the following context:\n"
    \o "          \n"
    \o "          Schema: "
    \o schemaText
    \o "\n"
    \o "          Sample Data: "
    \o sampleText
    \o "\n"
    \o "          Available Columns: "
    \o availableColumns
    \o "\n"
    \o "          \n"
    \o "          User Question: \""
    \o currentQuery
    \o "\"\n"
    \o "          \n"
    \o "          Provide a response in the following JSON format only:\n"
    \o "          {\n"
    \o "            \"answer\": \"A clear, conversational explanation of the analysis\",\n"
    \o "            \"sqlQuery\": \"The SQL query to get the results\",\n"
    \o "            \"visualization\": \"pie, bar, or line\"\n"
    \o "          }\n"
    \o "          \n"
    \o "          For text analysis questions:\n"
    \o "          1. Use string functions in SQL (LOWER, REGEXP_REPLACE) to clean text\n"
    \o "          2. Split text into words\n"
    \o "          3. Count word frequencies\n"
    \o "          4. Remove common stop words\n"
    \o "          5. Present top results\n"
    \o "          \n"
    \o "          Keep the response format strictly as JSON."

\* The template literal of App.tsx, lines 1213-1241
AnalysisPrompt_app(schemaText, sampleText, statisticsText, q) ==
  "You are a data analysis assistant specialized in SQL query generation and natural language explanations. \n"
    \o "    Analyze the following dataset and question:\n"
    \o "\n"
    \o "    Schema:\n"
    \o "    "
    \o schemaText
    \o "\n"
    \o "\n"
    \o "    Sample Data (first 5 rows):\n"
    \o "    "
    \o sampleText
    \o "\n"
    \o "\n"
    \o "    Column Statistics:\n"
    \o "    "
    \o statisticsText
    \o "\n"
    \o "\n"
    \o "    User Question:\n"
    \o "    "
    \o q
    \o "\n"
    \o "\n"
    \o "    Provide a response in the following JSON format only:\n"
    \o "    {\n"
    \o "      \"answer\": \"A clear, conversational explanation including specific values and counts from the data\",\n"
    \o "      \"sqlQuery\": \"The SQL query to get the results\",\n"
    \o "      \"visualization\": \"pie, bar, or line\"\n"
    \o "    }\n"
    \o "\n"
    \o "    For categorical questions (like types, categories, etc):\n"
    \o "    1. Include ALL unique values and their counts in the answer\n"
    \o "    2. Format numbers with commas for readability\n"
    \o "    3. Use bullet points for lists\n"
    \o "    4. Suggest appropriate visualizations\n"
    \o "\n"
    \o "    Keep the response format strictly as JSON."

\* The template literal of utils/openai.ts, lines 51-79
AnalysisPrompt_openai(schemaText, sampleText, q) ==
  "\n"
    \o "      You are a data analysis assistant specialized in SQL query generation and natural language explanations. Given the following dataset schema and user query, analyze the data and provide both a natural language answer and a SQL query.\n"
    \o "\n"
    \o "      Schema:\n"
    \o "      "
    \o schemaText
    \o "\n"
    \o "\n"
    \o "      Sample Data (first 5 rows):\n"
    \o "      "
    \o sampleText
    \o "\n"
    \o "\n"
    \o "      User Query:\n"
    \o "      "
    \o q
    \o "\n"
    \o "\n"
    \o "      Analyze the data and provide both a natural language explanation and a SQL query that answers the user's question.\n"
    \o "      \n"
    \o "      Respond strictly in JSON format using this structure:\n"
    \o "      {\n"
    \o "        \"answer\": \"A clear, natural language explanation of the analysis results\",  \n"
    \o "        \"sqlQuery\": \"The SQL query that answers the question\",\n"
    \o "        \"needsChart\": boolean,\n"
    \o "        \"chartType\": \"pie\" | \"bar\" | \"line\" | null,\n"
    \o "        \"chartDataColumn\": \"string\"\n"
    \o "      }\n"
    \o "\n"
    \o "      Guidelines:\n"
    \o "      1. The answer field should contain a clear, natural language explanation of the analysis.\n"
    \o "      2. The sqlQuery field should contain the SQL query that answers the question.\n"
    \o "      3. If the analysis would benefit from visualization, set needsChart to true and specify appropriate chart settings.\n"
    \o "      4. Ensure your response is valid JSON and includes all required fields.\n"
    \o "    "

\* The prompt handleQuerySubmit puts in the body of its fetch
QueryPromptOf(sch, d, q) ==
  QueryPrompt(StringifySchema(sch), StringifyRecords(SampleData(d), ""), AvailableColumns(sch), q)

\* The prompt analyzeDataWithAI of the module puts in its axios.post
AnalysisPromptOf(module, sch, d, q) ==
  IF module = "openai"
  THEN AnalysisPrompt_openai(StringifySchema(sch), StringifyRecords(SampleData(d), ""), q)
  ELSE AnalysisPrompt_app(StringifySchema(sch), StringifyRecords(SampleData(d), ""),
                          StringifyProfiles(schemaInfo(module, sch[1].columns, d)), q)

(***************************************************************************)
(* The prompts on their own: one question asked of two datasets that share *)
(* their schema and their first five records and differ, if at all, from   *)
(* the sixth record on.                                                    *)
(***************************************************************************)
TagRow(id, tag) == << <<"id", JNum(id)>>, <<"tag", JStr(tag)>> >>

FirstFive == [i \in 1..5 |-> TagRow(i, "t" \o ToString(i % 2))]

LaterRows == {TagRow(6, "t0"), TagRow(60, "say \"t9\""), << <<"id", JNull>> >>}

Tails == {<< >>} \cup {<<r>> : r \in LaterRows} \cup {<<r, s>> : r \in LaterRows, s \in LaterRows}

PromptQuestions == {"hi there, total by region?", "which id has the tag \"t1\"?"}

PromptCall(q, first, second) ==
  [kind |-> "prompt", query |-> q, schema |-> Some(InferSchema("tags.xlsx", first)),
   runs |-> <<first, second>>, pc |-> "start", fetched |-> << >>, analyzed |-> << >>]

InitPrompt ==
  /\ Mounted
  /\ probe \in {PromptCall(q, FirstFive \o t, FirstFive \o u) :
                  q \in PromptQuestions, t \in Tails, u \in Tails}
                 \cup {PromptCall(q, SalesRows, SalesRows) : q \in PromptQuestions}

\* handleQuerySubmit builds the body of its fetch, in either run
buildQueryPrompt ==
  /\ probe.kind = "prompt"
  /\ probe.pc = "start"
  /\ probe' = [probe EXCEPT !.pc = "fetched",
                 !.fetched = [r \in 1..2 |-> QueryPromptOf(probe.schema, probe.runs[r], probe.query)]]
  /\ UNCHANGED <<appVars, analysisModule, events>>

\* analyzeDataWithAI builds the prompt of its request, in either run
buildAnalysisPrompt ==
  /\ probe.kind = "prompt"
  /\ probe.pc = "fetched"
  /\ probe' = [probe EXCEPT !.pc = "analyzed",
                 !.analyzed = [r \in 1..2 |-> AnalysisPromptOf(analysisModule, probe.schema,
                                                               probe.runs[r], probe.query)]]
  /\ UNCHANGED <<appVars, analysisModule, events>>

NextPrompt == buildQueryPrompt \/ buildAnalysisPrompt

SpecPrompt == InitPrompt /\ [][NextPrompt]_vars

(***************************************************************************)
(* The session when axios is sure to time out a request whose reply does   *)
(* not come.  Nothing makes the service reply.                             *)
(***************************************************************************)
FairSpec == Spec /\ WF_vars(\E k \in 1..Len(flights) : axiosTimeout(k))

(***************************************************************************)
(* The claims about the functions on their own.                            *)
(***************************************************************************)
\* A call of processDataForChart that has returned
ChartReturned == probe.kind = "processDataForChart" /\ probe.done

\* C10: processDataForChart returns at most 10 points, whatever the dataset and the
\* column name, from the branch that bins numbers and from the branch that ranks
\* categories.
C10_AtMostTenPoints == ChartReturned => Len(probe.out) <= 10

\* C10 happens: a column of more than 10 distinct categories comes back as 10 points.
C10_Witness ==
  /\ ChartReturned
  /\ Len(probe.d) > 0
  /\ Cell(probe.d[1], probe.column).t = "string"
  /\ Cardinality(UniqueValues(probe.d, probe.column)) > 10
  /\ Len(probe.out) = 10

\* A call of analyzeDataWithAI that has settled
AnalysisSettled == probe.kind = "analyzeDataWithAI" /\ probe.done

\* The answer of a result says sorry
Apologetic(answer) == answer.t = "string" /\ includes(toLowerCase(answer.s), "apologize")

\* C7: analyzeDataWithAI never rejects: when the service refuses the connection, times
\* out, replies with an error field or replies with a text that holds no parseable
\* JSON, the call returns a result with an apologetic answer, sqlQuery '' and
\* needsChart false.
C7_NeverRejects ==
  AnalysisSettled /\ probe.reply \in FailureReplies /\ ~IsGreeting(probe.query)
    => /\ ~probe.out.threw
       /\ Apologetic(probe.out.result.answer)
       /\ probe.out.result.sqlQuery = JStr("")
       /\ probe.out.result.needsChart = JFalse

\* C9: a result analyzeDataWithAI returns that has needsChart true or a chartType
\* that is not null carries a series in chartData.
C9_NoChartWithoutData ==
  AnalysisSettled /\ ~probe.out.threw
    => (Truthy(probe.out.result.needsChart)
          \/ probe.out.result.chartType.t \notin {"null", "undefined"}
        => probe.out.result.chartData.t = "array")

(***************************************************************************)
(* The claims about the session.                                           *)
(***************************************************************************)
UserEntries(conv) == Cardinality({i \in 1..Len(conv) : conv[i].role = "user"})

NoAdjacentUsers(conv) ==
  \A i \in 1..(Len(conv) - 1) : ~(conv[i].role = "user" /\ conv[i + 1].role = "user")

Alternates(conv) ==
  \A i \in 1..Len(conv) : conv[i].role = IF i % 2 = 1 THEN "user" ELSE "assistant"

\* conv with one entry of the role appended
OneMore(conv, longer, role) ==
  /\ Len(longer) = Len(conv) + 1
  /\ SubSeq(longer, 1, Len(conv)) = conv
  /\ longer[Len(longer)].role = role

\* C1: single-flight.  While an accepted question has not resolved, no step adds a
\* user entry to the conversation or starts a request (a submit is ignored), so at
\* most one request is outstanding and no two user entries are next to each other.
C1_SingleFlight ==
  [][/\ flights # << >> =>
          /\ UserEntries(conversation') = UserEntries(conversation)
          /\ Len(flights') <= Len(flights)
     /\ Len(flights') <= 1
     /\ NoAdjacentUsers(conversation')]_vars

\* C1 happens: a question is in flight and the box holds a question to submit.
C1_Witness == Len(flights) = 1 /\ isAnalyzing /\ query # "" /\ Len(data) > 0

\* C2: one question, one answer.  An accepted question adds one user entry; when its
\* handling finishes, by the greeting path, by success or by a caught error, one
\* assistant entry follows it; with nothing in flight the conversation has even
\* length, and it alternates user, assistant throughout.
C2_OneQuestionOneAnswer ==
  [][/\ Alternates(conversation')
     /\ flights' = << >> => Len(conversation') % 2 = 0
     /\ Len(flights') > Len(flights) =>
          conversation' = Append(conversation, Message("user", JStr(query)))
     /\ Len(flights') < Len(flights) => OneMore(conversation, conversation', "assistant")
     /\ Len(flights') = Len(flights) /\ conversation' # conversation =>
          /\ Len(conversation') = Len(conversation) + 2
          /\ SubSeq(conversation', 1, Len(conversation) + 1)
               = Append(conversation, Message("user", JStr(query)))]_vars

\* C2 happens: a greeting and then a question whose fetch failed, each with its answer.
C2_Witness ==
  /\ flights = << >>
  /\ Len(conversation) = 4
  /\ conversation[2].content = JStr(GreetingText)
  /\ conversation[4].content = JStr(ErrorMessage("Failed to fetch"))

\* A step that ends the handling of a question
Finishes == Len(flights') < Len(flights) \/ Len(conversation') = Len(conversation) + 2

\* C4: when handleQuerySubmit finishes handling a question, by the greeting path, by
\* success or by a thrown error, isAnalyzing is false and the next submit is accepted.
C4_IdleWhenFinished ==
  [][/\ Finishes =>
          /\ ~isAnalyzing'
          /\ \A q \in Questions : Accepts(data', q, isAnalyzing')
     /\ flights' = << >> => ~isAnalyzing']_vars

\* C4 happens: reading the reply failed, and the session is idle again.
C4_Witness ==
  /\ flights = << >>
  /\ ~isAnalyzing
  /\ conversation # << >>
  /\ conversation[Len(conversation)].content = JStr(ErrorMessage("network error"))

\* C5: with a dataset loaded, submitting hi, hello, hey or greetings in any casing and
\* with white space around it makes no external call and sets the result to the canned
\* greeting with sqlQuery '', needsChart false and chartType null; the greeting is the
\* assistant entry.  (With nothing in flight only a submit changes the conversation.)
C5_GreetingShortCircuit ==
  [][Len(data) # 0 /\ ~isAnalyzing /\ query \in GreetingQuestions
       /\ conversation' # conversation =>
          /\ flights' = << >>
          /\ queryResult' # None
          /\ queryResult'[1].answer = JStr(GreetingText)
          /\ queryResult'[1].sqlQuery = JStr("")
          /\ queryResult'[1].needsChart = JFalse
          /\ queryResult'[1].chartType = JNull
          /\ conversation' = conversation \o <<Message("user", JStr(query)),
                                                Message("assistant", JStr(GreetingText))>>]_vars

\* C5 happens: " Hi" was submitted and answered with the greeting, with no request made.
C5_Witness ==
  /\ Len(conversation) >= 2
  /\ conversation[Len(conversation) - 1] = Message("user", JStr(" Hi"))
  /\ conversation[Len(conversation)] = Message("assistant", JStr(GreetingText))
  /\ queryResult # None
  /\ queryResult[1].answer = JStr(GreetingText)
  /\ flights = << >>

\* A step in which the fetch, the reading of its reply or the analysis call throws
Throws ==
  \E k \in 1..Len(flights) :
     \/ fetchRejects(k)
     \/ textRejects(k)
     \/ \E reply \in AxiosReplies \cup FailureReplies :
           /\ flights[k].pc = "analyze"
           /\ analyzeQuery(flights[k].query, flights[k].schema, flights[k].data, reply).threw
           /\ Settles(k, reply)

\* C6: when the fetch or the analysis call throws or rejects, the handler finishes; the
\* result becomes an apologetic answer with sqlQuery '', needsChart false, chartType
\* null and no chartData, and that answer is the assistant entry for the question.
C6_FailureResult ==
  [][Throws =>
       /\ ~isAnalyzing'
       /\ queryResult' # None
       /\ queryResult'[1].answer.t = "string"
       /\ queryResult'[1].answer.s # ""
       /\ Apologetic(queryResult'[1].answer)
       /\ queryResult'[1].sqlQuery = JStr("")
       /\ queryResult'[1].needsChart = JFalse
       /\ queryResult'[1].chartType = JNull
       /\ queryResult'[1].chartData = JUndef
       /\ conversation' = Append(conversation, Message("assistant", queryResult'[1].answer))]_vars

\* C6 happens: the analysis call threw, and the result and the last entry say so.
C6_Witness ==
  /\ queryResult = Some(ErrorResult(UnexpectedError))
  /\ conversation # << >>
  /\ conversation[Len(conversation)] = Message("assistant", JStr(ErrorMessage(UnexpectedError)))
  /\ ~isAnalyzing

\* C8: when the text the service returned to the fetch holds no parseable JSON object,
\* the question's result has a non-empty apologetic answer and an empty sqlQuery.
C8_MalformedReply ==
  [][(\E k \in 1..Len(flights) :
        /\ flights[k].pc = "analyze"
        /\ flights[k].responseText \in MalformedBodies
        /\ flights' = RemoveAt(flights, k)) =>
       /\ queryResult' # None
       /\ Apologetic(queryResult'[1].answer)
       /\ queryResult'[1].sqlQuery = JStr("")]_vars

\* C3: every accepted question resolves, and the session is idle again, also when the
\* service never replies: a timeout bounds each external call.
C3_EveryQuestionResolves == isAnalyzing ~> ~isAnalyzing

\* C11: in every reachable state the chartData of the current result, set by a query,
\* by the backfill of analyzeDataWithAI or by updateChartData on upload or column
\* selection, has at most 10 points, whatever the size of the dataset.
C11_ResultAtMostTenPoints ==
  queryResult # None /\ queryResult[1].chartData.t = "array"
    => Len(queryResult[1].chartData.a) <= 10

(***************************************************************************)
(* The claims about the series of processDataForChart.                     *)
(***************************************************************************)
\* The first record's value of the column is a number
NumericColumn(d, column) == Len(d) > 0 /\ column # "" /\ Cell(d[1], column).t = "number"

\* A column of some other first value
CategoricalColumn(d, column) == Len(d) > 0 /\ column # "" /\ Cell(d[1], column).t # "number"

RECURSIVE SumOfValues(_)
SumOfValues(points) ==
  IF points = << >> THEN 0 ELSE points[1].value + SumOfValues(Tail(points))

\* Every record holds the same number in the column
SameNumber(d, column) ==
  /\ NumericColumn(d, column)
  /\ \A i \in 1..Len(d) : Cell(d[i], column) = Cell(d[1], column)

\* C12: when every value of a numeric column is the same number, processDataForChart
\* returns exactly one bin, and its value is the number of records of the column.
C12_ZeroRangeOneBin ==
  ChartReturned /\ SameNumber(probe.d, probe.column)
    => Len(probe.out) = 1 /\ probe.out[1].value = Len(probe.d)

\* A numeric column with two distinct numbers or more
SpreadColumn(d, column) ==
  NumericColumn(d, column) /\ Cardinality(Range(NumericValues(d, column))) >= 2

\* C13: for a numeric column with at least two distinct values, every value is counted
\* in one bin with an index in [0, binCount - 1], the maximum is counted in the last
\* bin, and the bin counts sum to the number of values of the column.
C13_BinningIsTotal ==
  ChartReturned /\ SpreadColumn(probe.d, probe.column)
    => /\ Len(probe.out) = BinCount(Cardinality(UniqueValues(probe.d, probe.column)))
       /\ SumOfValues(probe.out) = Len(NumericValues(probe.d, probe.column))
       /\ probe.out[Len(probe.out)].value
            >= Cardinality({i \in 1..Len(NumericValues(probe.d, probe.column)) :
                              NumericValues(probe.d, probe.column)[i]
                                = SetMaxOf(Range(NumericValues(probe.d, probe.column)))})

\* C13 happens: a column of numbers and nulls, spread over more than two bins, the
\* nulls left out and a bin in the middle left empty.
C13_Witness ==
  /\ ChartReturned
  /\ SpreadColumn(probe.d, probe.column)
  /\ Len(NumericValues(probe.d, probe.column)) < Len(probe.d)
  /\ Len(probe.out) > 2
  /\ \E k \in 2..(Len(probe.out) - 1) : probe.out[k].value = 0
  /\ probe.out[Len(probe.out)].value > 0

\* The example's four bins with the given counts
AgeBins(counts) ==
  <<ChartPoint("20.00 - 37.50", counts[1]), ChartPoint("37.50 - 55.00", counts[2]),
    ChartPoint("55.00 - 72.50", counts[3]), ChartPoint("72.50 - 90.00", counts[4])>>

\* The call of the example has returned
AgesReturned == ChartReturned /\ probe.d = AgeRows /\ probe.column = "age"

\* C14, as claimed: the ages 20, 25, 30, 90 give 4 bins of width 17.5 from 20 with the
\* counts 2, 0, 0, 2.
C14_AgeExampleAsClaimed == AgesReturned => probe.out = AgeBins(<<2, 0, 0, 2>>)

\* C14, amended: the ages 20, 25, 30, 90 give 4 bins of width 17.5 from 20, labelled
\* '20.00 - 37.50', '37.50 - 55.00', '55.00 - 72.50', '72.50 - 90.00', with the counts
\* 3, 0, 0, 1: 30 lies in the first bin, and only 90 in the last.
C14_AgeExample == AgesReturned => probe.out = AgeBins(<<3, 0, 0, 1>>)

\* C14 happens: the example was run and gave four bins.
C14_Witness == AgesReturned /\ Len(probe.out) = 4

\* The first record whose category is name
FirstRowOf(d, column, name) ==
  SetMinOf({i \in 1..Len(d) : CategoryKey(d[i], column) = name})

\* C15: for a column that is not numeric, processDataForChart returns the categories by
\* non-increasing count, two categories of equal count in the order of their first
\* occurrence in the dataset, also for labels that are digit strings.
C15_RankedByCountThenFirstSeen ==
  ChartReturned /\ CategoricalColumn(probe.d, probe.column)
    => \A k \in 1..(Len(probe.out) - 1) :
         \/ probe.out[k].value > probe.out[k + 1].value
         \/ /\ probe.out[k].value = probe.out[k + 1].value
            /\ FirstRowOf(probe.d, probe.column, probe.out[k].name)
                 < FirstRowOf(probe.d, probe.column, probe.out[k + 1].name)

\* The column is in no record
AbsentColumn(d, column) == \A i \in 1..Len(d) : Cell(d[i], column).t = "undefined"

\* C17: processDataForChart yields an empty series for an empty dataset, for an empty
\* column name, and for a column name that no record of the dataset has.
C17_EmptyOrAbsentGivesEmpty ==
  ChartReturned /\ (Len(probe.d) = 0 \/ probe.column = "" \/ AbsentColumn(probe.d, probe.column))
    => probe.out = << >>

(***************************************************************************)
(* The claims about the column statistics.                                 *)
(***************************************************************************)
\* schemaInfo has been computed
Profiled == probe.kind = "schemaInfo" /\ probe.pc # "start"

\* The records with a value in the column
RecordsWithValue(d, column) ==
  {i \in 1..Len(d) : Cell(d[i], column).t \notin {"undefined", "null"}}

\* C19: the profile's totalCount is the number of records whose value for the column
\* is neither null nor undefined, uniqueCount is the number of distinct stringified
\* values among those records, and the counts of valueCounts sum to totalCount.
C19_ProfileCounts ==
  Profiled =>
    /\ probe.info[1].totalCount = Cardinality(RecordsWithValue(probe.d, probe.info[1].name))
    /\ probe.info[1].uniqueCount
         = Cardinality({JsString(Cell(probe.d[i], probe.info[1].name)) :
                          i \in RecordsWithValue(probe.d, probe.info[1].name)})
    /\ probe.info[1].valueCounts # None =>
         SumOfValues(probe.info[1].valueCounts[1]) = probe.info[1].totalCount

\* C16: for a categorical column, the values of the series processDataForChart returns
\* sum to at most the totalCount of the column's profile, and to exactly totalCount
\* when the profile's uniqueCount is at most 10, also when records have a null or no
\* value in the column.
C16_SeriesSumWithinTotal ==
  probe.kind = "schemaInfo" /\ probe.pc = "charted"
    /\ CategoricalColumn(probe.d, probe.info[1].name)
    => /\ SumOfValues(probe.series) <= probe.info[1].totalCount
       /\ probe.info[1].uniqueCount <= 10 =>
            SumOfValues(probe.series) = probe.info[1].totalCount

(***************************************************************************)
(* The claim about schema inference.                                       *)
(***************************************************************************)
\* The type the specification gives a column whose first value is value
TypeByFirstValue(value) ==
  IF value.t = "number" THEN "number"
  ELSE IF value.t = "date" THEN "datetime"
  ELSE IF value.t = "boolean" THEN "boolean"
  ELSE "string"

\* C18: for a parsed dataset that is not empty, the schema has one column per key of
\* the first record, in that record's key order, each of type number, datetime or
\* boolean as the first record's value is a number, a Date or a boolean, and string
\* otherwise; later records change nothing.
C18_SchemaFromFirstRecord ==
  probe.kind = "inferSchema" /\ probe.done
    => /\ Len(probe.out.columns) = Len(probe.file.rows[1])
       /\ \A k \in 1..Len(probe.file.rows[1]) :
            /\ probe.out.columns[k].name = probe.file.rows[1][k][1]
            /\ probe.out.columns[k].type = TypeByFirstValue(probe.file.rows[1][k][2])

\* C18 happens: a sheet whose first record holds a Date and a boolean and whose second
\* record holds strings under the same keys got a datetime and a boolean column.
C18_Witness ==
  /\ probe.kind = "inferSchema"
  /\ probe.done
  /\ Len(probe.file.rows) = 2
  /\ probe.file.rows[2][1][2].t = "string"
  /\ probe.out.columns = <<[name |-> "b", type |-> "datetime"], [name |-> "a", type |-> "boolean"]>>

(***************************************************************************)
(* The claim about the prompts.                                            *)
(***************************************************************************)
\* C20: the request depends on the dataset only through its first 5 records: for two
\* datasets with the same schema, the same first 5 records and the same question,
\* handleQuerySubmit builds the same prompt for both, and so does analyzeDataWithAI.
C20_PromptsFromFirstFive ==
  probe.kind = "prompt" /\ SampleData(probe.runs[1]) = SampleData(probe.runs[2])
    => /\ probe.pc \in {"fetched", "analyzed"} => probe.fetched[1] = probe.fetched[2]
       /\ probe.pc = "analyzed" => probe.analyzed[1] = probe.analyzed[2]

(***************************************************************************)
(* The claims about the column a chart is built for.                       *)
(***************************************************************************)
\* The column the claim has charted when requested is asked for
SubstitutedColumn(requested, columns) ==
  IF \E k \in 1..Len(columns) : columns[k].name = requested THEN requested
  ELSE columns[1].name

\* The series either module builds for a column
SeriesOfColumn(d, column) ==
  {JArr(BackfillSeries(d, column)), JArr(processDataForChart(d, column))}

\* C21: whenever a chart is built for a requested column name, the column charted is a
\* column of the schema: the requested one if the schema has it, otherwise the first
\* column of the schema; a name the schema does not have is never charted and never
\* surfaces as an error.
C21_ChartedColumnIsInSchema ==
  AnalysisSettled /\ probe.reply.kind = "resolve" /\ Truthy(probe.reply.response)
    /\ JSONparseReply(probe.reply.response.s).ok
    /\ Truthy(Field(JSONparseReply(probe.reply.response.s), "needsChart"))
    /\ analysisModule = "openai"
    => /\ ~probe.out.threw
       /\ probe.out.result.chartData \in
            SeriesOfColumn(probe.data,
                           SubstitutedColumn(
                             JsString(Field(JSONparseReply(probe.reply.response.s),
                                            "chartDataColumn")),
                             probe.schema[1].columns))

(***************************************************************************)
(* The claims about uploads and the schema.                                *)
(***************************************************************************)
\* C22: a submit while the dataset is empty changes nothing: no conversation entry is
\* appended, no external request starts, and isAnalyzing, the current result and the
\* question text are unchanged, also when the question is a greeting.  (Nothing else
\* that happens while the dataset is empty appends an entry, starts a request or
\* changes isAnalyzing or the current result either.)
C22_NoDataNoEffect ==
  [][Len(data) = 0 =>
       /\ UNCHANGED <<conversation, flights, isAnalyzing, queryResult>>
       /\ (handleQuerySubmit => UNCHANGED query)]_vars

\* C22 happens: a question, and a greeting too, is ready to submit while no data is
\* loaded, and nothing has come of any submit.
C22_Witness ==
  /\ Len(data) = 0
  /\ query \in GreetingQuestions
  /\ ~isAnalyzing
  /\ ENABLED handleQuerySubmit
  /\ conversation = << >>
  /\ queryResult = None

\* C23: in every reachable state the schema is null exactly when the dataset is empty,
\* and otherwise the schema's column names are the keys of the dataset's first record,
\* in order: no upload replaces one of the two without the other.
C23_SchemaWithData ==
  /\ (schema = None) <=> (Len(data) = 0)
  /\ schema # None => ColumnNames(schema[1]) = ObjectKeys(data[1])

\* C23 happens: the sheet of a later upload has replaced the schema and the records of
\* an earlier one.
C23_Witness ==
  /\ schema # None
  /\ schema[1].tableName = "big"
  /\ data = BigRows
  /\ ColumnNames(schema[1]) = <<"id", "tag">>
  /\ queryResult # None
  /\ queryResult[1].chartData.t = "array"
  /\ \E k \in 1..Len(queryResult[1].chartData.a) : queryResult[1].chartData.a[k].name = "east"

\* The file the user chose last, once its sheet has been read
ShownFile(f) == readers = << >> /\ uploadedFile = f.name

\* C24: uploading a file that parses to zero records puts the session in the
\* no-data-loaded state: the schema and the dataset of an earlier upload are replaced
\* (no columns, no records), so that a following submit is blocked, and the displayed
\* file name names the file the current schema came from.
C24_EmptyUploadUnloads ==
  \A f \in Files :
    ShownFile(f) =>
      /\ Len(f.rows) = 0 =>
           /\ Len(data) = 0
           /\ schema = None \/ Len(schema[1].columns) = 0
           /\ \A q \in Questions : ~Accepts(data, q, FALSE)
      /\ schema # None => schema[1].tableName = BaseName(f.name)

(***************************************************************************)
(* The claims about greetings and about the parsing of replies.            *)
(***************************************************************************)
\* C25: both analyzeDataWithAI, called with a question that trimmed and in lower case
\* is one of hi, hello, hey, greetings, return without issuing the HTTP request, with
\* sqlQuery '' and needsChart false.
C25_GreetingWithoutRequest ==
  AnalysisSettled /\ IsGreeting(probe.query)
    => /\ ~PostsRequest(analysisModule, probe.query, probe.schema)
       /\ ~probe.out.threw
       /\ probe.out.result.sqlQuery = JStr("")
       /\ probe.out.result.needsChart = JFalse

(***************************************************************************)
(* handleQuerySubmit from the reply on, on its own: the text of the reply  *)
(* to fetch is parsed, then the analysis call settles and the result is    *)
(* set.  The reply text is one JSON object with prose around it.           *)
(***************************************************************************)
PieObject == "{\"answer\":\"East leads\",\"sqlQuery\":\"SELECT region FROM sales\",\"visualization\":\"pie\"}"

PlainObject == "{\"answer\":\"Total is 75\",\"sqlQuery\":\"SELECT SUM(amount) FROM sales\"}"

ScatterObject == "{\"answer\":\"Amounts scatter\",\"sqlQuery\":\"\",\"visualization\":\"scatter\"}"

ReplyObjects == {PieObject, PlainObject, ScatterObject}

ProseBefore == {"", "Here you go: ", "The set {east, west} gives: "}

ProseAfter == {"", " Hope it helps.", " Braces } and { aside."}

ProseWrapped == [before : ProseBefore, object : ReplyObjects, after : ProseAfter]

\* The body of the reply to fetch that streams the text in one chunk
BodyOf(w) == ChunkLine(w.before \o w.object \o w.after) \o "\n" \o DoneLine \o "\n"

LlmDataOfWrapped == [w \in ProseWrapped |-> ParseReply(BodyOf(w))]

LlmDataOfObject == [object \in ReplyObjects |-> ParsedData(JSONparse(object))]

\* Lines 391-426: the result the handler sets once analyzeQuery has given out
SettledResult(llmData, out) ==
  IF out.threw THEN ErrorResult(out.message) ELSE MergedResult(llmData, out.result)

ReplyCall(w, file, reply) ==
  [kind |-> "handleQuerySubmit", wrapped |-> w, query |-> "hi there, total by region?",
   schema |-> Some(InferSchema(file.name, file.rows)), data |-> file.rows, reply |-> reply,
   pc |-> "text", llmData |-> NoLlmData, result |-> EmptyResult]

InitReply ==
  /\ Mounted
  /\ probe \in {ReplyCall(w, file, reply) :
                  w \in ProseWrapped, file \in {f \in Files : Len(f.rows) > 0},
                  reply \in AnalysisReplies}

\* Lines 356-388 for the text of the reply
parseResponseText ==
  /\ probe.kind = "handleQuerySubmit"
  /\ probe.pc = "text"
  /\ probe' = [probe EXCEPT !.pc = "analyze", !.llmData = LlmDataOfWrapped[probe.wrapped]]
  /\ UNCHANGED <<appVars, analysisModule, events>>

\* Lines 391-429 for the reply to the analysis call
setSettledResult ==
  /\ probe.kind = "handleQuerySubmit"
  /\ probe.pc = "analyze"
  /\ probe' = [probe EXCEPT
                 !.pc = "done",
                 !.result = SettledResult(probe.llmData,
                                          analyzeQuery(probe.query, probe.schema, probe.data,
                                                       probe.reply))]
  /\ UNCHANGED <<appVars, analysisModule, events>>

NextReply == parseResponseText \/ setSettledResult

SpecReply == InitReply /\ [][NextReply]_vars

\* The reply to fetch has been parsed
ReplyParsed == probe.kind = "handleQuerySubmit" /\ probe.pc # "text"

\* C26: whenever the reply text holds one valid JSON object with prose before it, after
\* it or both, prose that may itself hold "{" or "}", the parsed result is that
\* object's answer, sqlQuery and visualization, not the fallback apology.
C26_ProseAroundObject ==
  ReplyParsed => probe.llmData = LlmDataOfObject[probe.wrapped.object]

\* The chart types the application draws, and null for no chart
ChartTypes == {JStr("pie"), JStr("bar"), JStr("line"), JNull}

\* C27: the chartType of the current result is one of 'pie', 'bar', 'line' or null,
\* for every reply the text-generation service can send, also one whose visualization
\* field holds another string.
C27_ChartTypeIsKnown ==
  probe.kind = "handleQuerySubmit" /\ probe.pc = "done" => probe.result.chartType \in ChartTypes

(***************************************************************************)
(* The session from the moment a question about a loaded sheet has been    *)
(* submitted: the state of Spec after the upload of sales.xlsx, its load,  *)
(* the typing of the question and its submit.                              *)
(***************************************************************************)
SalesSchema == Some(InferSchema("sales.xlsx", SalesRows))

SalesQuestion == "hi there, total by region?"

Awaiting ==
  /\ uploadedFile = "sales.xlsx"
  /\ query = SalesQuestion
  /\ schema = SalesSchema
  /\ data = SalesRows
  /\ queryResult = None
  /\ selectedColumn = "region"
  /\ isAnalyzing = TRUE
  /\ conversation = <<Message("user", JStr(SalesQuestion))>>
  /\ chartType = "pie"
  /\ readers = << >>
  /\ flights = <<Flight("fetch", SalesQuestion, SalesSchema, SalesRows, "", NoLlmData)>>

\* The number of events that are followed from that moment on
MaxAfterSubmit == 5

InitAwaiting ==
  /\ Awaiting
  /\ analysisModule \in AnalysisModules
  /\ events = MaxEvents - MaxAfterSubmit
  /\ probe = NoProbe

SpecAwaiting == InitAwaiting /\ [][Next]_vars

\* The results the handler of flight f can set when its analysis call settles
SnapshotResults(f) ==
  {SettledResult(f.llmData, analyzeQuery(f.query, f.schema, f.data, reply)) :
     reply \in AxiosReplies \cup {TimedOut}}

\* C28: if an upload completes while a question is awaiting the service, the analysis
\* call and the chart data of that question use the schema and the dataset that were
\* current when the question was submitted, never a mix of the old and the new: a
\* submit takes the schema and the dataset of that moment, they stay what they were
\* while the question waits, whatever is uploaded, and the result set at the end is
\* the result of the analysis of them.
C28_SnapshotOfSubmit ==
  [][/\ Len(flights') > Len(flights) =>
          /\ flights'[Len(flights')].schema = schema
          /\ flights'[Len(flights')].data = data
     /\ \A k \in 1..Len(flights) :
          /\ Len(flights') = Len(flights) =>
               /\ flights'[k].schema = flights[k].schema
               /\ flights'[k].data = flights[k].data
          /\ flights[k].pc = "analyze" /\ flights' = RemoveAt(flights, k) =>
               /\ queryResult' # None
               /\ queryResult'[1] \in SnapshotResults(flights[k])]_vars

\* C28 happens: the sheet of big.csv was loaded while the question about the sales
\* waited, and the result of the question holds the chart of the sales.
C28_Witness ==
  /\ data = BigRows
  /\ schema # None
  /\ schema[1].tableName = "big"
  /\ flights = << >>
  /\ Len(conversation) = 2
  /\ queryResult # None
  /\ queryResult[1].chartData.t = "array"
  /\ \E k \in 1..Len(queryResult[1].chartData.a) : queryResult[1].chartData.a[k].name = "east"

(***************************************************************************)
(* The claims about the chart of a column.                                 *)
(***************************************************************************)
\* The step is the onload of a reader whose sheet has records
LoadsRecords ==
  \E k \in 1..Len(readers) : readers' = RemoveAt(readers, k) /\ Len(readers[k].file.rows) > 0

\* C29: once an upload with at least one record and one column has been processed, the
\* first of a session or a later one, selectedColumn is the first column of the new
\* schema and the current result holds the chart data computed from the newly uploaded
\* dataset for that column, never from the dataset or schema loaded before.
C29_InitialChartOfUpload ==
  [][LoadsRecords /\ Len(readers') < Len(readers) /\ Len(schema'[1].columns) > 0 =>
       /\ selectedColumn' = schema'[1].columns[1].name
       /\ queryResult' = updateChartData(data', schema', chartType', selectedColumn')]_vars

\* The step is the choice of a column in the column selector
ColumnSelected == \E columnName \in {"region", "amount", "id", "tag"} : selectColumn(columnName)

\* C30: selecting a column to visualize changes only the chart series: updateChartData
\* leaves the answer and the sqlQuery of the last query's result, the conversation,
\* the question text and the in-flight flag unchanged.
C30_SelectKeepsAnswer ==
  [][ColumnSelected /\ queryResult # None =>
       /\ queryResult' # None
       /\ queryResult'[1].answer = queryResult[1].answer
       /\ queryResult'[1].sqlQuery = queryResult[1].sqlQuery
       /\ UNCHANGED <<conversation, query, isAnalyzing>>]_vars

====
